---- MODULE Spec2Model ----
(***************************************************************************)
(* werft job-execution subsystem: Service (RunJob, OnUpdate callback,      *)
(* ensureLogging, listenToLogs, cleanupJobWorkspace) on top of the         *)
(* Executor (Start, Stop, monitorJobs, handleJobEvent, actOnUpdate,        *)
(* doHousekeeping, addAnnotation), the orchestrator and the event bus.     *)
(***************************************************************************)
EXTENDS Naturals, Sequences, FiniteSets, TLC

(* ------------------------------ bounds -------------------------------- *)
\* watch events that may wait in the watch channel
MaxQueue == 2
\* RunJob calls per behaviour
MaxRuns == 1
\* RESULT lines a workload writes to its log
MaxResults == 1
\* losses of the watch subscription per behaviour
MaxDrops == 1
\* restarts of the Service process per behaviour
MaxRestarts == 1
\* housekeeping passes per behaviour that time a workload out
MaxTimeouts == 1
\* Stop calls per behaviour
MaxStops == 1
\* direct Start calls per behaviour where a name is used again
MaxStarts == 2
\* housekeeping passes per behaviour in which a call fails
MaxFaultyPasses == 1
\* log-forwarder tasks that can exist at a time: one per RunJob call and
\* one re-attached
MaxFwd == MaxRuns + 1
\* statuses a subscriber's inbox holds before the subscriber is dropped
InboxCap == 1

(* ------------------------ program constants --------------------------- *)
\* executor.preperationTimeout and executor.totalTimeout, in housekeeping
\* ticks (JobPrepTimeout/2 each): NewExecutor requires total >= prep
JobPrepTimeout == 1
JobTotalTimeout == 2

\* v1.JobPhase enum values
PHASE_PREPARING == 1
PHASE_STARTING == 2
PHASE_RUNNING == 3
PHASE_DONE == 4
PHASE_CLEANUP == 5

JobNames == {"j1"}
CleanupName(name) == "cleanup-" \o name
\* the workloads the core creates
CoreNames == JobNames \cup {CleanupName(j) : j \in JobNames}
\* a workload in the same namespace that someone else creates
ForeignNames == {"x1"}
PodNames == CoreNames \cup ForeignNames
\* the user job a cleanup workload belongs to
CleanupOf(n) == CHOOSE j \in JobNames : CleanupName(j) = n

NoStatus == [phase |-> 0, success |-> FALSE, fc |-> 0, results |-> {},
             cleanup |-> FALSE]
NoEntry == [present |-> FALSE]

VARIABLES
    pods,        \* orchestrator: workload name -> workload object or NoPod
    queue,       \* events waiting in the watch channel (incoming.ResultChan())
    watchUp,     \* the watcher holds an open watch subscription
    wpc,         \* watcher position: "idle", "emit" (in OnUpdate's publish),
                 \* "act" (actOnUpdate), "onerror" (calling OnError)
    wevt,        \* the event the watcher is handling
    rj,          \* the RunJob call in flight / last returned
    runs,        \* RunJob calls made
    logListener, \* srv.logListener: job name -> jobLog entry
    fwd,         \* log-forwarder tasks (listenToLogs), by task id
    logs,        \* log store: job name -> stream state
    jobs,        \* JobStore: job name -> last stored status
    bus,         \* event bus: last published status and subscribers
    hist,        \* observation counters (stores, publications, cleanups)
    env          \* environment budget: drops, restarts, failures, timeouts;
                 \* the token store; the plugin host and its plugins
vars == <<pods, queue, watchUp, wpc, wevt, rj, runs, logListener, fwd, logs,
          jobs, bus, hist, env>>

(* --------------------------- orchestrator ------------------------------ *)
UserDataAnnotationPrefix == "userdata.werft.sh"
\* the key under which Start stores the user annotation key
UserKey(key) == UserDataAnnotationPrefix \o "/" \o key

\* A workload as Executor.Start submits it under name n.
\*   marker   the label werft.sh/job=true is set
\*   label    value of the job-name label
\*   cleanup, created: the werft.sh/metadata annotation: whether the metadata
\*            carries the cleanupJob annotation, and whether its created
\*            field is a valid timestamp
\*   userdata keys of the annotations made from the caller's annotations
\*   cstate   container state the orchestrator reports
\*   failed   value of the werft.sh/failed annotation ("none": not set)
\*   results  the results annotation; emitted: RESULT lines written to the log
NewPod(n, cleanup, keys) ==
    [exists |-> TRUE, cstate |-> "pending", failed |-> "none",
     deleting |-> FALSE, cleanup |-> cleanup, results |-> {}, emitted |-> 0,
     marker |-> TRUE, label |-> n, created |-> TRUE,
     userdata |-> {UserKey(k) : k \in keys}]

NoPod == [NewPod("", FALSE, {}) EXCEPT !.exists = FALSE, !.marker = FALSE,
                                      !.created = FALSE]

\* the object a watch event carries: the workload without what is not part
\* of the object (its log)
Snapshot(p) == [p EXCEPT !.emitted = 0]

\* mutant: a selector that matches every workload of the namespace
SelectAll(p) == TRUE
\* the label selector of the watcher's Watch and of housekeeping's List
Selected(p) == p.marker

\* the watch channel receives an event for workload n while subscribed
Notify(q, up, n, p) ==
    IF up /\ Selected(p)
    THEN Append(q, [name |-> n, obj |-> Snapshot(p)]) ELSE q

\* room in the watch channel for k more events (model bound)
Room(k) == ~watchUp \/ Len(queue) + k <= MaxQueue

\* Status recomputation: a pure function of the workload.
getStatus(obj) ==
    LET base == [phase |-> PHASE_PREPARING, success |-> TRUE, fc |-> 0,
                 results |-> obj.results, cleanup |-> obj.cleanup]
    IN  IF obj.deleting THEN [base EXCEPT !.phase = PHASE_CLEANUP]
        ELSE IF obj.failed # "none"
             THEN [base EXCEPT !.phase = PHASE_DONE, !.success = FALSE]
        ELSE IF obj.cstate = "failed"
             THEN [base EXCEPT !.phase = PHASE_DONE, !.success = FALSE,
                               !.fc = 1]
        ELSE IF obj.cstate = "succeeded"
             THEN [base EXCEPT !.phase = PHASE_DONE]
        ELSE IF obj.cstate = "running"
             THEN [base EXCEPT !.phase = PHASE_RUNNING]
        ELSE IF obj.cstate = "waiting"
             THEN [base EXCEPT !.phase = PHASE_STARTING]
        ELSE base

\* Executor.Start: submit a workload under the given name. The orchestrator
\* refuses a second object of the same name, or the object altogether.
\* mutant: an orchestrator that accepts an object under a name in use
StartOkAnyName(ps, n, accept) == accept
StartOk(ps, n, accept) == accept /\ ~ps[n].exists
Start(ps, n, cleanup, keys) == [ps EXCEPT ![n] = NewPod(n, cleanup, keys)]

\* Executor.addAnnotation: read-modify-write of the failed annotation; fails
\* when the workload does not exist
\* mutant: the write replaces the workload's annotations by the new one
addAnnotationReplace(ps, n, msg) ==
    IF ps[n].exists
    THEN [ps EXCEPT ![n].failed = msg, ![n].cleanup = FALSE,
                    ![n].created = FALSE, ![n].userdata = {},
                    ![n].results = {}]
    ELSE ps
addAnnotation(ps, n, msg) ==
    IF ps[n].exists THEN [ps EXCEPT ![n].failed = msg] ELSE ps

\* Executor.Stop: list the workloads carrying the job-name label, fail
\* unless there is exactly one, annotate that one
StopMsg == "job was stopped manually"
Labelled(ps, name) == {n \in PodNames : ps[n].exists /\ ps[n].label = name}
\* mutant: Stop takes the first of several listed workloads
StopErrFirst(listOk, items) ==
    IF ~listOk THEN "list failed"
    ELSE IF Cardinality(items) = 0 THEN "unknown job"
    ELSE "none"
StopErr(listOk, items) ==
    IF ~listOk THEN "list failed"
    ELSE IF Cardinality(items) = 0 THEN "unknown job"
    ELSE IF Cardinality(items) > 1 THEN "no unique execution"
    ELSE "none"
\* mutant: Stop reports success without writing the annotation
StopForget(ps, name, listOk) ==
    LET items == Labelled(ps, name)
        err == StopErr(listOk, items)
        n == CHOOSE x \in items : TRUE
    IN  IF err # "none" THEN [ps |-> ps, err |-> err, target |-> "none"]
        ELSE [ps |-> ps, err |-> "none", target |-> n]
Stop(ps, name, listOk) ==
    LET items == Labelled(ps, name)
        err == StopErr(listOk, items)
        n == CHOOSE x \in items : TRUE
    IN  IF err # "none" THEN [ps |-> ps, err |-> err, target |-> "none"]
        ELSE [ps |-> addAnnotation(ps, n, StopMsg), err |-> "none",
              target |-> n]

\* Executor.RegisterResult: add a result to the results annotation
RegisterResult(ps, n, r) ==
    IF ps[n].exists THEN [ps EXCEPT ![n].results = @ \cup {r}] ELSE ps

\* watch events for the workloads that differ between ps and ps2, in the
\* order of PodOrder
PodOrder == <<"j1", "cleanup-j1", "x1">>
RECURSIVE Changed(_, _, _, _, _)
Changed(q, up, ps, ps2, i) ==
    IF i > Len(PodOrder) THEN q
    ELSE LET n == PodOrder[i]
         IN  Changed(IF ps2[n].exists
                         /\ Snapshot(ps2[n]) # Snapshot(ps[n])
                     THEN Notify(q, up, n, ps2[n]) ELSE q,
                     up, ps, ps2, i + 1)
NumChanged(ps, ps2) ==
    Cardinality({n \in PodNames : ps2[n].exists /\ Selected(ps2[n])
                                  /\ Snapshot(ps2[n]) # Snapshot(ps[n])})

(* ----------------------------- initial state --------------------------- *)
NoEvt == [name |-> "j1", obj |-> Snapshot(NoPod)]
NoFwd == [state |-> "free", job |-> "j1", pos |-> 0, cancelled |-> FALSE]
NoLog == [state |-> "none", late |-> FALSE]
\* a pod spec: its init containers and its containers, each container the
\* sequence of its environment variables
NoSpec == [init |-> <<>>, containers |-> <<>>]
\* podspec: the spec RunJob decoded and augmented; dump: the spec written to
\* the log; sent: the spec passed to Executor.Start; declared: the spec as
\* the job YAML declared it
NoRun == [pc |-> "idle", name |-> "j1", cleanup |-> FALSE, ret |-> "none",
          logsOpen |-> FALSE, marker |-> FALSE, submitted |-> FALSE,
          status |-> NoStatus, fStores |-> 0, fEmits |-> 0, why |-> "none",
          podspec |-> NoSpec, dump |-> NoSpec, sent |-> NoSpec,
          declared |-> NoSpec]

\* observation of the last Stop call: its result, what its List returned
\* and the phase the annotated workload was in
\* the last RPC request: the interceptor it came through ("unary" or
\* "stream"), its method, whether it carried metadata, the values of its
\* authorization key, what TokenStore.Get did, and the outcome: the error
\* code returned, whether the handler was invoked, the user it ran as
NoRequest == [kind |-> "none", method |-> "none", hasMd |-> FALSE,
              tkn |-> <<>>, get |-> "ok", code |-> "none",
              invoked |-> FALSE, user |-> "none"]

\* observation of the last direct Start call: whether a workload of that
\* name existed, and the error returned
NoStart == [name |-> "none", existed |-> FALSE, err |-> "none"]
NoStop == [calls |-> 0, name |-> "none", listOk |-> TRUE, listed |-> 0,
           err |-> "none", target |-> "none", phase |-> 0]

\* srv.Tokens: nil, or a store that maps tokens to users
NoTokens == [configured |-> FALSE, users |-> <<>>]
TokenStore == [configured |-> TRUE, users |-> [t \in {"tok-alice"} |-> "alice"]]

\* the Service after construction, with tokens as its srv.Tokens
\* no log line has been handled yet
NoRes == [type |-> "", payload |-> "", description |-> "", channels |-> <<>>]
NoLine == [name |-> <<>>, marker |-> "NONE", text |-> <<>>]
NoParse == [line |-> NoLine, outcome |-> "none", res |-> NoRes]

\* srv.mu with no holder, no OnUpdate and no RunJob inside a locked
\* section, and no access to logListener made yet
NoLock == [writer |-> "none", readers |-> {},
           pc |-> [RunJob |-> "idle", OnUpdate |-> "idle"],
           phase |-> 0, access |-> {}]

\* the plugin host after Start: stopchan is open; every repository plugin
\* has a process that does not serve yet, a registration task at the top
\* of its loop and a ticker that has not fired; regs counts the calls of
\* the repo-registration callback, late the handshake attempts begun after
\* Stop
RepoPlugins == {"p1", "p2"}
MaxRegistrations == 2
MaxAttempts == 2
NoPlugin == [pc |-> "dial", proc |-> "starting", tick |-> FALSE, regs |-> 0,
             late |-> 0]
NoPlugins == [stopped |-> FALSE, task |-> [p \in RepoPlugins |-> NoPlugin]]

InitWith(tokens) ==
    /\ pods = [n \in PodNames |-> NoPod]
    /\ queue = <<>>
    /\ watchUp = TRUE
    /\ wpc = "idle"
    /\ wevt = NoEvt
    /\ rj = NoRun
    /\ runs = 0
    /\ logListener = [j \in PodNames |-> NoEntry]
    /\ fwd = [i \in 1..MaxFwd |-> NoFwd]
    /\ logs = [j \in PodNames |-> NoLog]
    /\ jobs = [j \in PodNames |-> NoStatus]
    /\ bus = [last |-> NoStatus, sub |-> "none", inbox |-> <<>>]
    /\ hist = [cleanups |-> [j \in PodNames |-> 0],
               done |-> [j \in PodNames |-> FALSE],
               missed |-> [j \in PodNames |-> FALSE],
               emitted |-> [j \in PodNames |-> 0],
               reported |-> NoStatus,
               stop |-> NoStop,
               hk |-> [passes |-> 0, occurred |-> {}, reported |-> {}],
               start |-> NoStart,
               auth |-> NoRequest,
               result |-> NoParse,
               fwd |-> [stopped |-> {}, copyFailed |-> {}],
               mu |-> NoLock,
               named |-> {}]
    /\ env = [drops |-> 0, restarts |-> 0, fails |-> 0, timeouts |-> 0,
              tokens |-> tokens, plugins |-> NoPlugins]

Init == InitWith(TokenStore)
\* the Service with or without a token store
InitAuth == \E tokens \in {NoTokens, TokenStore} : InitWith(tokens)

(* ------------------- orchestrator and environment ---------------------- *)
\* observation: workload n changed while no watch was subscribed
Missed(h, n) == IF watchUp THEN h ELSE [h EXCEPT !.missed[n] = TRUE]

\* a workload's containers make progress
PodStep(c) ==
    CASE c = "pending" -> {"waiting", "running"}
      [] c = "waiting" -> {"running"}
      [] c = "running" -> {"succeeded", "failed"}
      [] OTHER -> {}

PodProgress(n) ==
    /\ pods[n].exists /\ ~pods[n].deleting
    /\ Room(1)
    /\ \E c \in PodStep(pods[n].cstate) :
         LET ps2 == [pods EXCEPT ![n].cstate = c]
         IN  /\ pods' = ps2
             /\ queue' = Changed(queue, watchUp, pods, ps2, 1)
    /\ hist' = Missed(hist, n)
    /\ UNCHANGED <<watchUp, wpc, wevt, rj, runs, logListener, fwd, logs, jobs,
                   bus, env>>

\* a running user workload writes a RESULT line to its log
PodLog(n) ==
    /\ n \in JobNames
    /\ pods[n].exists /\ ~pods[n].deleting /\ pods[n].cstate = "running"
    /\ pods[n].emitted < MaxResults
    /\ pods' = [pods EXCEPT ![n].emitted = @ + 1]
    /\ hist' = [hist EXCEPT !.emitted[n] = pods[n].emitted + 1]
    /\ UNCHANGED <<queue, watchUp, wpc, wevt, rj, runs, logListener, fwd,
                   logs, jobs, bus, env>>

\* the orchestrator removes a workload whose deletion was requested; the
\* watch delivers the DELETED event with the last object
PodGone(n) ==
    /\ pods[n].exists /\ pods[n].deleting
    /\ Room(1)
    /\ pods' = [pods EXCEPT ![n] = NoPod]
    /\ queue' = Notify(queue, watchUp, n, pods[n])
    /\ hist' = Missed(hist, n)
    /\ UNCHANGED <<watchUp, wpc, wevt, rj, runs, logListener, fwd, logs, jobs,
                   bus, env>>

\* the watch subscription is lost: undelivered events are lost with it
WatchDrop ==
    /\ watchUp /\ env.drops < MaxDrops
    /\ watchUp' = FALSE
    /\ queue' = <<>>
    /\ env' = [env EXCEPT !.drops = @ + 1]
    /\ UNCHANGED <<pods, wpc, wevt, rj, runs, logListener, fwd, logs, jobs,
                   bus, hist>>

\* someone other than the Executor deletes a workload
ExternalDelete(n) ==
    /\ pods[n].exists /\ ~pods[n].deleting
    /\ Room(1)
    /\ LET ps2 == [pods EXCEPT ![n].deleting = TRUE]
       IN  /\ pods' = ps2
           /\ queue' = Changed(queue, watchUp, pods, ps2, 1)
    /\ hist' = Missed(hist, n)
    /\ UNCHANGED <<watchUp, wpc, wevt, rj, runs, logListener, fwd, logs, jobs,
                   bus, env>>

(* ------------------------------ event bus ------------------------------ *)
\* Emit: the status becomes the bus's latest publication and is appended to
\* the inbox of the active subscriber; a subscriber whose inbox is full is
\* dropped. Emit never waits for a subscriber.
EmitReady(b) == TRUE
Emit(b, s) ==
    [b EXCEPT !.last = s,
              !.inbox = IF b.sub = "active" /\ Len(b.inbox) < InboxCap
                        THEN Append(b.inbox, s) ELSE <<>>,
              !.sub = IF b.sub = "active" /\ Len(b.inbox) >= InboxCap
                      THEN "dropped" ELSE b.sub]

\* Listen/Subscribe: a client subscribes to the bus
Subscribe ==
    /\ bus.sub = "none"
    /\ bus' = [bus EXCEPT !.sub = "active"]
    /\ UNCHANGED <<pods, queue, watchUp, wpc, wevt, rj, runs, logListener,
                   fwd, logs, jobs, hist, env>>

\* the subscriber's task takes a status out of its inbox
SubscriberRead ==
    /\ bus.sub = "active" /\ bus.inbox # <<>>
    /\ bus' = [bus EXCEPT !.inbox = Tail(@)]
    /\ UNCHANGED <<pods, queue, watchUp, wpc, wevt, rj, runs, logListener,
                   fwd, logs, jobs, hist, env>>

(* ------------------------------- Service ------------------------------- *)
FreeFwd(fw) == {i \in 1..MaxFwd : fw[i].state = "free"}
NewFwd(fw) == CHOOSE i \in FreeFwd(fw) : \A k \in FreeFwd(fw) : i <= k

\* an ensureLogging that does not look at the attached forwarder
needsLoggingAlways(ll, name, s) == s.phase <= PHASE_DONE

\* ensureLogging does something for this status: the phase is at most DONE
\* and the entry is missing or has no forwarder attached
needsLogging(ll, name, s) ==
    /\ s.phase <= PHASE_DONE
    /\ ~(ll[name].present /\ ll[name].cancel # 0)

\* ensureLogging: under the write lock, (re-)open the log store for a job
\* without entry and attach a forwarder task when none is attached
ensureLogging(ll, fw, lg, name, s, openOk) ==
    IF ~needsLogging(ll, name, s) \/ (~ll[name].present /\ ~openOk)
    THEN [ll |-> ll, fw |-> fw, lg |-> lg]
    ELSE LET fid == NewFwd(fw)
         IN  [ll |-> [ll EXCEPT ![name] = [present |-> TRUE, cancel |-> fid]],
              fw |-> [fw EXCEPT ![fid] = [state |-> "run", job |-> name,
                                          pos |-> 0, cancelled |-> FALSE]],
              lg |-> IF ll[name].present THEN lg
                     ELSE [lg EXCEPT ![name].state = "open"]]

\* cleanupJobWorkspace: start the workload cleanup-<name> with the
\* cleanupJob annotation; a failing Start is logged
cleanupJobWorkspace(ps, name) ==
    IF StartOk(ps, CleanupName(name), TRUE)
    THEN Start(ps, CleanupName(name), TRUE, {}) ELSE ps

\* isCleanupJob: the status's metadata carries the cleanupJob annotation
\* an OnUpdate without the cleanupJob check
NeverCleanupJob(s) == FALSE

isCleanupJob(s) == s.cleanup

\* The OnUpdate callback up to its publish step, as a function of the
\* Service's state: the new logListener, forwarders, log store, JobStore,
\* orchestrator and observation record, and whether a publish follows.
OnUpdate(name, s, openOk) ==
    LET same == [ll |-> logListener, fw |-> fwd, lg |-> logs, jb |-> jobs,
                 ps |-> pods, hs |-> hist, emit |-> FALSE]
    IN
    IF isCleanupJob(s) THEN same
    ELSE
    LET el == ensureLogging(logListener, fwd, logs, name, s, openOk)
        \* Logs.Write + dump of the workload and of the status
        lg1 == IF el.lg[name].state = "closed"
               THEN [el.lg EXCEPT ![name].late = TRUE] ELSE el.lg
    IN
    IF s.phase = PHASE_CLEANUP
    THEN IF el.ll[name].present
         THEN LET ps2 == cleanupJobWorkspace(pods, name)
                  c == el.ll[name].cancel
              IN [ll |-> [el.ll EXCEPT ![name] = NoEntry],
                  fw |-> IF c # 0 THEN [el.fw EXCEPT ![c].cancelled = TRUE]
                         ELSE el.fw,
                  lg |-> [lg1 EXCEPT ![name].state = "closed"],
                  jb |-> jobs,
                  ps |-> ps2,
                  hs |-> IF ps2 # pods
                         THEN [hist EXCEPT !.cleanups[name] = @ + 1]
                         ELSE hist,
                  emit |-> FALSE]
         ELSE [same EXCEPT !.ll = el.ll, !.fw = el.fw, !.lg = lg1]
    ELSE [ll |-> el.ll, fw |-> el.fw, lg |-> lg1,
          jb |-> [jobs EXCEPT ![name] = s],
          ps |-> pods,
          hs |-> [hist EXCEPT !.reported = s],
          emit |-> TRUE]

(* ------------------------------- watcher ------------------------------- *)
\* the next event the watcher handles: the oldest in the watch channel
\* a watcher that takes the youngest waiting event first
NewestEvent(q) == q[Len(q)]

NextEvent(q) == Head(q)
RestEvents(q) == Tail(q)

\* handleJobEvent: compute the status of the event's workload, invoke
\* OnUpdate (here up to its publish step)
handleJobEventIn(steps) ==
    /\ wpc = "idle" /\ queue # <<>>
    /\ \E openOk \in BOOLEAN :
         LET evt == NextEvent(queue)
             s == getStatus(evt.obj)
             r == OnUpdate(evt.name, s, openOk)
         IN  /\ (~isCleanupJob(s) /\ needsLogging(logListener, evt.name, s))
                  => FreeFwd(fwd) # {}
             /\ logListener' = r.ll
             /\ fwd' = r.fw
             /\ logs' = r.lg
             /\ jobs' = IF steps THEN jobs ELSE r.jb
             /\ pods' = r.ps
             /\ hist' = LET h == IF steps
                                 THEN [r.hs EXCEPT !.reported = hist.reported]
                                 ELSE r.hs
                        IN  IF s.phase = PHASE_DONE
                            THEN [h EXCEPT !.done[evt.name] = TRUE] ELSE h
             /\ queue' = Changed(RestEvents(queue), watchUp, pods, r.ps, 1)
             /\ wevt' = evt
             /\ wpc' = IF ~r.emit THEN "act"
                       ELSE IF steps THEN "store" ELSE "emit"
    /\ UNCHANGED <<watchUp, rj, runs, bus, env>>

\* the watcher's step with OnUpdate's Jobs.Store and updateGitHubStatus
\* done in the same step
handleJobEvent == handleJobEventIn(FALSE)

\* OnUpdate, called step by step: after the CLEANUP branch was not taken,
\* Jobs.Store with the status
OnUpdateStore ==
    /\ wpc = "store"
    /\ jobs' = [jobs EXCEPT ![wevt.name] = getStatus(wevt.obj)]
    /\ wpc' = "report"
    /\ UNCHANGED <<pods, queue, watchUp, wevt, rj, runs, logListener, fwd,
                   logs, bus, hist, env>>

\* an OnUpdate that does not call the status reporter
OnUpdateReportNothing ==
    /\ wpc = "report"
    /\ wpc' = "emit"
    /\ UNCHANGED <<pods, queue, watchUp, wevt, rj, runs, logListener, fwd,
                   logs, jobs, bus, hist, env>>

\* OnUpdate, called step by step: updateGitHubStatus with the status
OnUpdateReport ==
    /\ wpc = "report"
    /\ hist' = [hist EXCEPT !.reported = getStatus(wevt.obj)]
    /\ wpc' = "emit"
    /\ UNCHANGED <<pods, queue, watchUp, wevt, rj, runs, logListener, fwd,
                   logs, jobs, bus, env>>

\* OnUpdate's last statement: <-srv.events.Emit("job", s)
OnUpdateEmit ==
    /\ wpc = "emit"
    /\ EmitReady(bus)
    /\ bus' = Emit(bus, getStatus(wevt.obj))
    /\ wpc' = "act"
    /\ UNCHANGED <<pods, queue, watchUp, wevt, rj, runs, logListener, fwd,
                   logs, jobs, hist, env>>

\* the delete actOnUpdate issues: the orchestrator marks the workload of
\* that name as being deleted; deleting a missing workload is an error
\* mutant: a delete that never reports an error
DeleteOkAlways(ps, n) == TRUE
DeleteOk(ps, n) == ps[n].exists
Delete(ps, n) == IF ps[n].exists THEN [ps EXCEPT ![n].deleting = TRUE] ELSE ps

\* actOnUpdate deletes the workload of a status in phase DONE
\* mutant: delete as soon as the workload runs
shouldDeleteEarly(s) == s.phase >= PHASE_RUNNING
shouldDelete(s) == s.phase = PHASE_DONE

\* actOnUpdate, and what handleJobEvent does with its result: when the
\* delete failed the watcher calls OnError, otherwise it is done with the
\* event
actOnUpdate ==
    /\ wpc = "act"
    /\ LET del == shouldDelete(getStatus(wevt.obj))
           ps2 == IF del THEN Delete(pods, wevt.name) ELSE pods
       IN  /\ pods' = ps2
           /\ queue' = Changed(queue, watchUp, pods, ps2, 1)
           /\ IF del /\ ~DeleteOk(pods, wevt.name)
              THEN wpc' = "onerror" /\ wevt' = wevt
              ELSE wpc' = "idle" /\ wevt' = NoEvt
    /\ UNCHANGED <<watchUp, rj, runs, logListener, fwd, logs, jobs, bus,
                   hist, env>>

\* where the watcher goes on after it reported an error: handleJobEvent
\* returns into the loop over the watch channel, a failed Watch call is
\* followed by the next iteration of the outer loop
\* mutant: the watcher gives up after reporting an error
afterErrorStop(pos) == "stopped"
afterError(pos) == "idle"

\* js.OnError(err) in the watcher; the callback returns
OnError ==
    /\ wpc = "onerror"
    /\ wpc' = afterError(wpc)
    /\ wevt' = NoEvt
    /\ UNCHANGED <<pods, queue, watchUp, rj, runs, logListener, fwd, logs,
                   jobs, bus, hist, env>>

\* monitorJobs: after the watch channel closed, establish a new watch; the
\* orchestrator first reports every existing marker-labelled workload
RECURSIVE Existing(_, _)
Existing(ps, i) ==
    IF i > Len(PodOrder) THEN <<>>
    ELSE (IF ps[PodOrder[i]].exists /\ Selected(ps[PodOrder[i]])
          THEN <<[name |-> PodOrder[i], obj |-> Snapshot(ps[PodOrder[i]])]>>
          ELSE <<>>) \o Existing(ps, i + 1)

monitorJobs ==
    /\ ~watchUp /\ wpc = "idle"
    /\ \E ok \in BOOLEAN :
         IF ok
         THEN /\ watchUp' = TRUE
              /\ queue' = Existing(pods, 1)
              /\ wpc' = wpc
         ELSE \* the Watch call fails: OnError, then the next attempt
              /\ wpc' = "onerror"
              /\ UNCHANGED <<watchUp, queue>>
    /\ UNCHANGED <<pods, wevt, rj, runs, logListener, fwd, logs, jobs,
                   bus, hist, env>>

(* -------------------------------- RunJob ------------------------------- *)
\* the synthetic status of RunJob's deferred failure path
FailStatus(cleanup) ==
    [phase |-> PHASE_DONE, success |-> FALSE, fc |-> 1, results |-> {},
     cleanup |-> cleanup]

\* a RunJob that returns its error without the deferred failure path
RunJobFailSilent(r, jb, why) ==
    [rj |-> [r EXCEPT !.pc = "idle", !.ret = "err", !.why = why], jobs |-> jb]

\* RunJob's deferred failure path up to its publish step: write the failure
\* marker when the log was opened, store the synthetic status
RunJobFail(r, jb, why) ==
    [rj |-> [r EXCEPT !.pc = "emit", !.why = why, !.marker = r.logsOpen,
                      !.status = NoStatus, !.fStores = @ + 1],
     jobs |-> [jb EXCEPT ![r.name] = FailStatus(r.cleanup)]]

\* environment variable names, as the characters strings.ToLower and
\* strings.Contains work on
LowerOf(c) ==
    CASE c = "S" -> "s" [] c = "E" -> "e" [] c = "C" -> "c" [] c = "R" -> "r"
      [] c = "T" -> "t" [] c = "H" -> "h" [] c = "O" -> "o" [] c = "M" -> "m"
      [] OTHER -> c
ToLower(str) == [i \in DOMAIN str |-> LowerOf(str[i])]
Contains(str, sub) ==
    \E i \in 0..(Len(str) - Len(sub)) : SubSeq(str, i + 1, i + Len(sub)) = sub
SecretWord == <<"s", "e", "c", "r", "e", "t">>
isSecretName(name) == Contains(ToLower(name), SecretWord)
Redacted == "[redacted]"

\* the copy of the pod spec RunJob dumps into the log
redactContainer(c) ==
    [i \in DOMAIN c |-> IF isSecretName(c[i].name)
                        THEN [c[i] EXCEPT !.value = Redacted] ELSE c[i]]
redactedSpec(spec) ==
    [spec EXCEPT !.init = [i \in DOMAIN spec.init |->
                             redactContainer(spec.init[i])]]

\* the pod specs RunJob is called with
EnvNames == {<<"S", "E", "C", "R", "E", "T">>,
             <<"m", "y", "S", "e", "c", "r", "e", "t">>,
             <<"H", "O", "M", "E">>}
EnvVars == [name : EnvNames, value : {"hunter2"}]
Containers == {<<>>} \cup {<<e>> : e \in EnvVars}
PodSpecs == [init : {<<c>> : c \in Containers},
             containers : {<<c>> : c \in Containers}]

\* the container contentProvider.InitContainer() returns, with a variable
\* no declared container has
InitContainer == <<[name |-> <<"R", "E", "P", "O">>, value |-> "x/y"]>>
\* podspec.InitContainers = append(podspec.InitContainers, cpinit)
withCheckout(spec) == [spec EXCEPT !.init = Append(@, InitContainer)]

\* the callers of RunJob name every job anew (a counter per number group):
\* RunJob is called with a name no earlier call had
IsNewName(name) == name \notin hist.named

RunJobCallWith(name, cleanup, podspec) ==
    /\ rj.pc = "idle" /\ runs < MaxRuns
    /\ IsNewName(name)
    /\ rj' = [NoRun EXCEPT !.pc = "open", !.name = name, !.cleanup = cleanup,
                           !.podspec = podspec, !.declared = podspec]
    /\ runs' = runs + 1
    /\ hist' = [hist EXCEPT !.named = @ \cup {name}]
    /\ UNCHANGED <<pods, queue, watchUp, wpc, wevt, logListener, fwd, logs,
                   jobs, bus, env>>
RunJobCall(name, cleanup) == RunJobCallWith(name, cleanup, NoSpec)

\* RunJob called once more with a name an earlier call had
RunJobAgain(name, cleanup) ==
    /\ rj.pc = "idle" /\ runs < MaxRuns + 1
    /\ ~IsNewName(name)
    /\ rj' = [NoRun EXCEPT !.pc = "open", !.name = name, !.cleanup = cleanup]
    /\ runs' = runs + 1
    /\ UNCHANGED <<pods, queue, watchUp, wpc, wevt, logListener, fwd, logs,
                   jobs, bus, hist, env>>

\* Logs.Open, install the logListener entry, write the preparing PHASE line
RunJobOpen ==
    /\ rj.pc = "open"
    /\ \E ok \in BOOLEAN :
         IF ok
         THEN /\ logs' = [logs EXCEPT ![rj.name].state = "open"]
              /\ logListener' = [logListener EXCEPT
                                   ![rj.name] = [present |-> TRUE, cancel |-> 0]]
              /\ rj' = [rj EXCEPT !.pc = "render", !.logsOpen = TRUE]
              /\ jobs' = jobs
         ELSE /\ rj' = RunJobFail(rj, jobs, "open").rj
              /\ jobs' = RunJobFail(rj, jobs, "open").jobs
              /\ UNCHANGED <<logs, logListener>>
    /\ UNCHANGED <<pods, queue, watchUp, wpc, wevt, runs, fwd, bus, hist, env>>

\* a RunJob that hands the spec to the Executor before it finds the
\* template, the decoding or the pod spec at fault
RunJobRenderLate ==
    /\ rj.pc = "render"
    /\ Room(1)
    /\ \E why \in {"template", "decode", "podspec", "none"} :
         IF why = "none"
         THEN /\ rj' = [rj EXCEPT !.pc = "start",
                                  !.podspec = withCheckout(rj.podspec),
                                  !.dump = redactedSpec(
                                               withCheckout(rj.podspec))]
              /\ jobs' = jobs
              /\ UNCHANGED <<pods, queue>>
         ELSE LET ps2 == Start(pods, rj.name, rj.cleanup, {})
                  r2 == [rj EXCEPT !.submitted = TRUE]
              IN  /\ pods' = ps2
                  /\ queue' = Changed(queue, watchUp, pods, ps2, 1)
                  /\ rj' = RunJobFail(r2, jobs, "render").rj
                  /\ jobs' = RunJobFail(r2, jobs, "render").jobs
    /\ UNCHANGED <<watchUp, wpc, wevt, runs, logListener, fwd, logs, bus,
                   hist, env>>

\* template parse and execution, decoding, pod spec, init container, dump
RenderFailures == {"template", "decode", "podspec", "initcontainer"}
RunJobRender ==
    /\ rj.pc = "render"
    /\ \E why \in RenderFailures \cup {"none"} :
         IF why = "none"
         THEN /\ rj' = [rj EXCEPT !.pc = "start",
                                  !.podspec = withCheckout(rj.podspec),
                                  !.dump = redactedSpec(
                                               withCheckout(rj.podspec))]
              /\ jobs' = jobs
         ELSE /\ rj' = RunJobFail(rj, jobs, "render").rj
              /\ jobs' = RunJobFail(rj, jobs, "render").jobs
    /\ UNCHANGED <<pods, queue, watchUp, wpc, wevt, runs, logListener, fwd,
                   logs, bus, hist, env>>

\* Executor.Start with the job's name
RunJobStart ==
    /\ rj.pc = "start"
    /\ Room(1)
    /\ \E accept \in BOOLEAN :
         IF StartOk(pods, rj.name, accept)
         THEN LET ps2 == Start(pods, rj.name, rj.cleanup, {})
              IN  /\ pods' = ps2
                  /\ queue' = Changed(queue, watchUp, pods, ps2, 1)
                  /\ rj' = [rj EXCEPT !.pc = "serve", !.submitted = TRUE,
                                      !.sent = rj.podspec,
                                      !.status = getStatus(ps2[rj.name])]
                  /\ jobs' = jobs
         ELSE /\ rj' = RunJobFail(rj, jobs, "start").rj
              /\ jobs' = RunJobFail(rj, jobs, "start").jobs
              /\ UNCHANGED <<pods, queue>>
    /\ UNCHANGED <<watchUp, wpc, wevt, runs, logListener, fwd, logs, bus,
                   hist, env>>

\* contentProvider.Serve
RunJobServe ==
    /\ rj.pc = "serve"
    /\ \E ok \in BOOLEAN :
         IF ok
         THEN /\ rj' = [rj EXCEPT !.pc = "store"]
              /\ jobs' = jobs
         ELSE /\ rj' = RunJobFail(rj, jobs, "serve").rj
              /\ jobs' = RunJobFail(rj, jobs, "serve").jobs
    /\ UNCHANGED <<pods, queue, watchUp, wpc, wevt, runs, logListener, fwd,
                   logs, bus, hist, env>>

\* Jobs.Store of the status Executor.Start returned; return it
RunJobStore ==
    /\ rj.pc = "store"
    /\ jobs' = [jobs EXCEPT ![rj.name] = rj.status]
    /\ rj' = [rj EXCEPT !.pc = "idle", !.ret = "ok"]
    /\ UNCHANGED <<pods, queue, watchUp, wpc, wevt, runs, logListener, fwd,
                   logs, bus, hist, env>>

\* the failure path's publish step, then RunJob returns the error
RunJobEmit ==
    /\ rj.pc = "emit"
    /\ EmitReady(bus)
    /\ bus' = Emit(bus, FailStatus(rj.cleanup))
    /\ rj' = [rj EXCEPT !.pc = "idle", !.ret = "err", !.fEmits = @ + 1]
    /\ UNCHANGED <<pods, queue, watchUp, wpc, wevt, runs, logListener, fwd,
                   logs, jobs, hist, env>>

(* ------------------------------- srv.mu -------------------------------- *)
\* sync.RWMutex: Lock waits until nobody holds the mutex, RLock until no
\* writer holds it
CanLock(m) == m.writer = "none" /\ m.readers = {}
CanRLock(m) == m.writer = "none"
\* how thread t holds the mutex
Held(m, t) ==
    IF m.writer = t THEN "write"
    ELSE IF t \in m.readers THEN "read" ELSE "none"
\* the accesses to the logListener map and its entries that thread t makes
\* in one step, each with the lock t holds while making it
Accesses(m, t, ops) == {[by |-> t, op |-> o, held |-> Held(m, t)] : o \in ops}

(* ---------------------------- log forwarder ---------------------------- *)
\* io.Copy to the writer Logs.Write returned: bytes written to a log that
\* has been closed come late
Copy(lg, name) ==
    IF lg[name].state = "closed" THEN [lg EXCEPT ![name].late = TRUE] ELSE lg

\* listenToLogs, RESULT case: the forwarder reads the next RESULT line of
\* the workload's log, copies it to the log store and registers the result
listenToLogsResult(i) ==
    /\ fwd[i].state = "run"
    /\ pods[fwd[i].job].exists /\ fwd[i].pos < pods[fwd[i].job].emitted
    /\ Room(1)
    /\ LET ps2 == RegisterResult(pods, fwd[i].job, fwd[i].pos + 1)
       IN  /\ pods' = ps2
           /\ queue' = Changed(queue, watchUp, pods, ps2, 1)
    /\ logs' = Copy(logs, fwd[i].job)
    /\ fwd' = [fwd EXCEPT ![i].pos = @ + 1]
    /\ UNCHANGED <<watchUp, wpc, wevt, rj, runs, logListener, jobs, bus,
                   hist, env>>

\* listenToLogs, ctx.Done case: the cancelled forwarder returns
listenToLogsCancelled(i) ==
    /\ fwd[i].state = "run" /\ fwd[i].cancelled
    /\ fwd' = [fwd EXCEPT ![i] = NoFwd]
    /\ UNCHANGED <<pods, queue, watchUp, wpc, wevt, rj, runs, logListener,
                   logs, jobs, bus, hist, env>>

\* listenToLogs returns an error other than context.Canceled: Logs.Write
\* failed at its start ("write"), or copying to the log store failed and the
\* errchan case stops the job ("copy"); the task is over, the goroutine that
\* ran it has yet to clear the cancel handle
FailureKinds == {"write", "copy"}
listenToLogsFails(i) ==
    /\ fwd[i].state = "run"
    /\ env.fails < MaxRestarts
    /\ Room(1)
    /\ \E kind \in FailureKinds, listOk \in BOOLEAN :
         LET ps2 == IF kind = "copy" THEN Stop(pods, fwd[i].job, listOk).ps
                    ELSE pods
         IN  /\ kind = "write" => (fwd[i].pos = 0 /\ listOk)
             /\ pods' = ps2
             /\ queue' = Changed(queue, watchUp, pods, ps2, 1)
             /\ hist' = IF kind = "copy"
                        THEN [hist EXCEPT !.fwd.stopped = @ \cup {i},
                                          !.fwd.copyFailed = @ \cup {i}]
                        ELSE hist
    /\ fwd' = [fwd EXCEPT ![i].state = "failed"]
    /\ env' = [env EXCEPT !.fails = @ + 1]
    /\ UNCHANGED <<watchUp, wpc, wevt, rj, runs, logListener, logs, jobs,
                   bus>>

\* a goroutine that leaves the cancel handle as it is
listenToLogsResetNothing(i) ==
    /\ fwd[i].state = "failed"
    /\ fwd' = [fwd EXCEPT ![i] = NoFwd]
    /\ UNCHANGED <<pods, queue, watchUp, wpc, wevt, rj, runs, logListener,
                   logs, jobs, bus, hist, env>>

\* the goroutine ensureLogging started, after listenToLogs returned an
\* error: it clears the cancel handle of the entry it attached the forwarder
\* to, which may no longer be in the map
listenToLogsReset(i) ==
    /\ fwd[i].state = "failed"
    /\ logListener' = IF logListener[fwd[i].job].present
                         /\ logListener[fwd[i].job].cancel = i
                      THEN [logListener EXCEPT ![fwd[i].job].cancel = 0]
                      ELSE logListener
    /\ fwd' = [fwd EXCEPT ![i] = NoFwd]
    /\ hist' = [hist EXCEPT !.mu.access =
                  Accesses(hist.mu, "listener", {"clearCancel"})]
    /\ UNCHANGED <<pods, queue, watchUp, wpc, wevt, rj, runs, logs, jobs, bus,
                   env>>

(* --------------------- the locked sections, by step --------------------- *)
\* RunJob, srv.mu.Lock() before it installs the entry
RunJobLock(name) ==
    /\ hist.mu.pc.RunJob = "idle" /\ runs < MaxRuns
    /\ IsNewName(name)
    /\ CanLock(hist.mu)
    /\ hist' = [hist EXCEPT !.mu.writer = "RunJob",
                            !.mu.pc.RunJob = "install",
                            !.named = @ \cup {name}]
    /\ rj' = [rj EXCEPT !.name = name]
    /\ runs' = runs + 1
    /\ UNCHANGED <<pods, queue, watchUp, wpc, wevt, logListener, fwd, logs,
                   jobs, bus, env>>

\* RunJob, srv.logListener[name] = &jobLog{LogStore: logs}
RunJobInstall ==
    /\ hist.mu.pc.RunJob = "install"
    /\ logListener' = [logListener EXCEPT
                         ![rj.name] = [present |-> TRUE, cancel |-> 0]]
    /\ logs' = [logs EXCEPT ![rj.name].state = "open"]
    /\ hist' = [hist EXCEPT !.mu.pc.RunJob = "unlock",
                            !.mu.access =
                               Accesses(hist.mu, "RunJob", {"install"})]
    /\ UNCHANGED <<pods, queue, watchUp, wpc, wevt, rj, runs, fwd, jobs, bus,
                   env>>

\* RunJob, srv.mu.Unlock()
RunJobUnlock ==
    /\ hist.mu.pc.RunJob = "unlock"
    /\ hist' = [hist EXCEPT !.mu.writer = "none", !.mu.pc.RunJob = "idle"]
    /\ UNCHANGED <<pods, queue, watchUp, wpc, wevt, rj, runs, logListener,
                   fwd, logs, jobs, bus, env>>

\* the status a step-by-step OnUpdate call handles
LockedName == "j1"
LockedStatus == [NoStatus EXCEPT !.phase = hist.mu.phase]
\* where OnUpdate goes on after ensureLogging: to the CLEANUP branch, or, for
\* another status, to the calls that do not touch logListener
AfterLogging == IF hist.mu.phase = PHASE_CLEANUP THEN "cleanup" ELSE "idle"

\* OnUpdate is called with a status of a job that is no cleanup job;
\* ensureLogging returns at once for a phase above DONE
OnUpdateCall(phase) ==
    /\ hist.mu.pc.OnUpdate = "idle"
    /\ hist' = [hist EXCEPT !.mu.phase = phase,
                            !.mu.pc.OnUpdate =
                               IF phase > PHASE_DONE THEN "cleanup"
                               ELSE "rlock"]
    /\ UNCHANGED <<pods, queue, watchUp, wpc, wevt, rj, runs, logListener,
                   fwd, logs, jobs, bus, env>>

\* ensureLogging, srv.mu.RLock()
ensureLoggingRLock ==
    /\ hist.mu.pc.OnUpdate = "rlock"
    /\ CanRLock(hist.mu)
    /\ hist' = [hist EXCEPT !.mu.readers = @ \cup {"OnUpdate"},
                            !.mu.pc.OnUpdate = "check"]
    /\ UNCHANGED <<pods, queue, watchUp, wpc, wevt, rj, runs, logListener,
                   fwd, logs, jobs, bus, env>>

\* ensureLogging, allOk() under the read lock, then srv.mu.RUnlock()
ensureLoggingCheck ==
    /\ hist.mu.pc.OnUpdate = "check"
    /\ hist' = [hist EXCEPT
                  !.mu.readers = @ \ {"OnUpdate"},
                  !.mu.access = Accesses(hist.mu, "OnUpdate", {"read"}),
                  !.mu.pc.OnUpdate =
                     IF needsLogging(logListener, LockedName, LockedStatus)
                     THEN "lock" ELSE AfterLogging]
    /\ UNCHANGED <<pods, queue, watchUp, wpc, wevt, rj, runs, logListener,
                   fwd, logs, jobs, bus, env>>

\* ensureLogging, srv.mu.Lock()
ensureLoggingLock ==
    /\ hist.mu.pc.OnUpdate = "lock"
    /\ CanLock(hist.mu)
    /\ hist' = [hist EXCEPT !.mu.writer = "OnUpdate",
                            !.mu.pc.OnUpdate = "attach"]
    /\ UNCHANGED <<pods, queue, watchUp, wpc, wevt, rj, runs, logListener,
                   fwd, logs, jobs, bus, env>>

\* ensureLogging under the write lock: allOk() again, install the entry if
\* it is missing, set the cancel handle and start the forwarder
ensureLoggingAttach ==
    /\ hist.mu.pc.OnUpdate = "attach"
    /\ needsLogging(logListener, LockedName, LockedStatus)
         => FreeFwd(fwd) # {}
    /\ \E openOk \in BOOLEAN :
         LET el == ensureLogging(logListener, fwd, logs, LockedName,
                                 LockedStatus, openOk)
             ops == {"read"}
                      \cup (IF el.ll[LockedName].present
                               /\ ~logListener[LockedName].present
                            THEN {"install"} ELSE {})
                      \cup (IF el.fw # fwd THEN {"setCancel"} ELSE {})
         IN  /\ logListener' = el.ll
             /\ fwd' = el.fw
             /\ logs' = el.lg
             /\ hist' = [hist EXCEPT
                           !.mu.access = Accesses(hist.mu, "OnUpdate", ops),
                           !.mu.pc.OnUpdate = "unlock"]
    /\ UNCHANGED <<pods, queue, watchUp, wpc, wevt, rj, runs, jobs, bus, env>>

\* ensureLogging, the deferred srv.mu.Unlock()
ensureLoggingUnlock ==
    /\ hist.mu.pc.OnUpdate = "unlock"
    /\ hist' = [hist EXCEPT !.mu.writer = "none",
                            !.mu.pc.OnUpdate = AfterLogging]
    /\ UNCHANGED <<pods, queue, watchUp, wpc, wevt, rj, runs, logListener,
                   fwd, logs, jobs, bus, env>>

\* OnUpdate, CLEANUP branch: srv.mu.Lock()
OnUpdateCleanupLock ==
    /\ hist.mu.pc.OnUpdate = "cleanup"
    /\ CanLock(hist.mu)
    /\ hist' = [hist EXCEPT !.mu.writer = "OnUpdate",
                            !.mu.pc.OnUpdate = "clean"]
    /\ UNCHANGED <<pods, queue, watchUp, wpc, wevt, rj, runs, logListener,
                   fwd, logs, jobs, bus, env>>

\* OnUpdate, CLEANUP branch under the write lock: cancel the forwarder,
\* close the log store, start the cleanup workload, delete the entry
OnUpdateCleanup ==
    /\ hist.mu.pc.OnUpdate = "clean"
    /\ Room(1)
    /\ IF logListener[LockedName].present
       THEN LET c == logListener[LockedName].cancel
                ps2 == cleanupJobWorkspace(pods, LockedName)
            IN  /\ fwd' = IF c # 0 THEN [fwd EXCEPT ![c].cancelled = TRUE]
                          ELSE fwd
                /\ logs' = [logs EXCEPT ![LockedName].state = "closed"]
                /\ pods' = ps2
                /\ queue' = Changed(queue, watchUp, pods, ps2, 1)
                /\ logListener' = [logListener EXCEPT ![LockedName] = NoEntry]
                /\ hist' = [hist EXCEPT
                              !.mu.access = Accesses(hist.mu, "OnUpdate",
                                                     {"read", "delete"}),
                              !.mu.pc.OnUpdate = "cleaned"]
       ELSE /\ hist' = [hist EXCEPT
                          !.mu.access = Accesses(hist.mu, "OnUpdate",
                                                 {"read"}),
                          !.mu.pc.OnUpdate = "cleaned"]
            /\ UNCHANGED <<fwd, logs, pods, queue, logListener>>
    /\ UNCHANGED <<watchUp, wpc, wevt, rj, runs, jobs, bus, env>>

\* OnUpdate, CLEANUP branch: srv.mu.Unlock() and return
OnUpdateCleanupUnlock ==
    /\ hist.mu.pc.OnUpdate = "cleaned"
    /\ hist' = [hist EXCEPT !.mu.writer = "none", !.mu.pc.OnUpdate = "idle"]
    /\ UNCHANGED <<pods, queue, watchUp, wpc, wevt, rj, runs, logListener,
                   fwd, logs, jobs, bus, env>>

(* ------------------------ housekeeping and Stop ------------------------ *)
PhaseName(ph) ==
    CASE ph = PHASE_PREPARING -> "preparing"
      [] ph = PHASE_STARTING -> "starting"
      [] ph = PHASE_RUNNING -> "running"
      [] ph = PHASE_DONE -> "done"
      [] OTHER -> "cleanup"
TimeoutMsg(ph) == "job timed out during " \o PhaseName(ph)
TimeoutMsgs == {TimeoutMsg(ph) : ph \in PHASE_PREPARING..PHASE_CLEANUP}

\* the time a workload may live in its phase
ttl(s) == IF s.phase = PHASE_PREPARING THEN JobPrepTimeout ELSE JobTotalTimeout

\* one workload of a housekeeping pass; age is time.Since(created), in
\* units of JobPrepTimeout/2
housekeep(p, age) ==
    IF p.exists /\ Selected(p) /\ ~(age < ttl(getStatus(p)))
    THEN [p EXCEPT !.failed = TimeoutMsg(getStatus(p).phase)] ELSE p

\* doHousekeeping: one pass over the listed workloads, each of some age
Ages == 0..JobTotalTimeout
doHousekeeping ==
    /\ env.timeouts < MaxTimeouts
    /\ \E ages \in [CoreNames -> Ages] :
      LET ps2 == [n \in PodNames |->
                    housekeep(pods[n], IF n \in CoreNames THEN ages[n]
                                       ELSE JobTotalTimeout)]
      IN  /\ ps2 # pods
          /\ Room(NumChanged(pods, ps2))
          /\ pods' = ps2
          /\ queue' = Changed(queue, watchUp, pods, ps2, 1)
          /\ env' = [env EXCEPT !.timeouts = @ + 1]
          /\ UNCHANGED <<watchUp, wpc, wevt, rj, runs, logListener, fwd, logs,
                         jobs, bus, hist>>

\* A housekeeping pass in which one kind of call fails. faults names the
\* calls that fail during the pass: the List, getStatus, the parse of metadata.created,
\* the annotation write. occurred collects the errors of the pass, reported
\* the ones passed to OnError.
Faults == {"list", "status", "created", "annotate"}
NoHk == [passes |-> 0, occurred |-> {}, reported |-> {}]
housekeepOne(p, age, faults) ==
    IF ~(p.exists /\ Selected(p))
    THEN [p |-> p, occurred |-> {}, reported |-> {}]
    ELSE IF "status" \in faults
    THEN [p |-> p, occurred |-> {"status"}, reported |-> {"status"}]
    ELSE IF "created" \in faults
    THEN [p |-> p, occurred |-> {"created"}, reported |-> {"created"}]
    ELSE IF age < ttl(getStatus(p))
    THEN [p |-> p, occurred |-> {}, reported |-> {}]
    ELSE IF "annotate" \in faults
    THEN [p |-> p, occurred |-> {"annotate"}, reported |-> {}]
    ELSE [p |-> housekeep(p, age), occurred |-> {}, reported |-> {}]
housekeepPass(ps, ages, faults) ==
    IF "list" \in faults
    THEN [ps |-> ps, occurred |-> {"list"}, reported |-> {"list"}]
    ELSE LET one(n) == housekeepOne(ps[n], IF n \in CoreNames THEN ages[n]
                                          ELSE JobTotalTimeout, faults)
         IN  [ps |-> [n \in PodNames |-> one(n).p],
              occurred |-> UNION {one(n).occurred : n \in PodNames},
              reported |-> UNION {one(n).reported : n \in PodNames}]
doHousekeepingFaulty ==
    /\ hist.hk.passes < MaxFaultyPasses
    /\ \E f \in Faults :
      \* only a failing annotation write depends on the workloads' ages
      \E ages \in IF f = "annotate" THEN [CoreNames -> Ages]
                   ELSE {[n \in CoreNames |-> 0]} :
      LET r == housekeepPass(pods, ages, {f})
      IN  /\ r.occurred # {}
          /\ Room(NumChanged(pods, r.ps))
          /\ pods' = r.ps
          /\ queue' = Changed(queue, watchUp, pods, r.ps, 1)
          /\ hist' = [hist EXCEPT !.hk = [passes |-> @.passes + 1,
                                          occurred |-> r.occurred,
                                          reported |-> r.reported]]
          /\ UNCHANGED <<watchUp, wpc, wevt, rj, runs, logListener, fwd, logs,
                         jobs, bus, env>>

\* StopJob: delegate to Executor.Stop
StopJob(name) ==
    /\ hist.stop.calls < MaxStops
    /\ Room(1)
    /\ \E listOk \in BOOLEAN :
         LET r == Stop(pods, name, listOk)
         IN  /\ pods' = r.ps
             /\ queue' = Changed(queue, watchUp, pods, r.ps, 1)
             /\ hist' = [hist EXCEPT !.stop =
                    [calls |-> @.calls + 1, name |-> name, listOk |-> listOk,
                     listed |-> IF listOk
                                THEN Cardinality(Labelled(pods, name)) ELSE 0,
                     err |-> r.err, target |-> r.target,
                     phase |-> IF r.target = "none" THEN 0
                               ELSE getStatus(pods[r.target]).phase]]
    /\ UNCHANGED <<watchUp, wpc, wevt, rj, runs, logListener, fwd, logs, jobs,
                   bus, env>>

\* Executor.Start called with WithName(n) and WithAnnotations(keys): the
\* workload is submitted unless the orchestrator refuses it
AnnotationFailed == "werft.sh/failed"
AnnotationMetadata == "werft.sh/metadata"
UserKeys == {"owner", AnnotationMetadata}
\* max: the Start calls made per behaviour
ExecutorStartWithin(n, keys, max) ==
    /\ runs < max
    /\ Room(1)
    /\ \E accept \in BOOLEAN :
         LET ok == StartOk(pods, n, accept)
             ps2 == IF ok THEN Start(pods, n, FALSE, keys) ELSE pods
         IN  /\ pods' = ps2
             /\ queue' = Changed(queue, watchUp, pods, ps2, 1)
             /\ hist' = [hist EXCEPT !.start =
                    [name |-> n, existed |-> pods[n].exists,
                     err |-> IF ok THEN "none" ELSE "create failed"]]
    /\ runs' = runs + 1
    /\ UNCHANGED <<watchUp, wpc, wevt, rj, logListener, fwd, logs, jobs, bus,
                   env>>
ExecutorStart(n, keys) == ExecutorStartWithin(n, keys, MaxRuns)

(* --------------------------- authentication ---------------------------- *)
\* TokenStore.Get: the user of the token, ErrNotFound, or another error
Get(tokens, tkn, outcome) ==
    IF outcome = "error" THEN [err |-> "error", user |-> ""]
    ELSE IF tkn \in DOMAIN tokens.users
         THEN [err |-> "none", user |-> tokens.users[tkn]]
         ELSE [err |-> "ErrNotFound", user |-> ""]

errMissingMetadata == "InvalidArgument"
errInvalidToken == "Unauthenticated"
\* mutant: a request without token runs as anonymous
validateTokenLax(r, tokens) ==
    IF ~r.hasMd THEN [code |-> errMissingMetadata, user |-> "none"]
    ELSE IF ~tokens.configured \/ Len(r.tkn) = 0
    THEN [code |-> "none", user |-> "anonymous"]
    ELSE LET g == Get(tokens, r.tkn[1], r.get)
         IN  IF g.err = "ErrNotFound"
             THEN [code |-> errInvalidToken, user |-> "none"]
             ELSE IF g.err # "none"
             THEN [code |-> "Internal", user |-> "none"]
             ELSE [code |-> "none", user |-> g.user]
validateTokenFromRequest(r, tokens) ==
    IF ~r.hasMd THEN [code |-> errMissingMetadata, user |-> "none"]
    ELSE IF ~tokens.configured THEN [code |-> "none", user |-> "anonymous"]
    ELSE IF Len(r.tkn) = 0 THEN [code |-> errMissingMetadata, user |-> "none"]
    ELSE LET g == Get(tokens, r.tkn[1], r.get)
         IN  IF g.err = "ErrNotFound"
             THEN [code |-> errInvalidToken, user |-> "none"]
             ELSE IF g.err # "none"
             THEN [code |-> "Internal", user |-> "none"]
             ELSE [code |-> "none", user |-> g.user]

LoginMethod == "/v1.WerftService/Login"
UnaryMethods == {"/v1.WerftService/GetJob", "/v1.WerftService/StopJob"}
StreamMethods == {LoginMethod, "/v1.WerftService/Listen",
                  "/v1.WerftService/Subscribe"}
TokenValues == {<<>>, <<"tok-alice">>, <<"tok-x">>, <<"tok-x", "tok-alice">>}
Requests(methods) ==
    [method : methods, hasMd : BOOLEAN, tkn : TokenValues,
     get : {"ok", "error"}]
UnaryRequests == Requests(UnaryMethods)
StreamRequests == Requests(StreamMethods)

\* the request as hist.auth records it
Handled(kind, r, v) ==
    [kind |-> kind, method |-> r.method, hasMd |-> r.hasMd, tkn |-> r.tkn,
     get |-> r.get, code |-> v.code, invoked |-> v.code = "none",
     user |-> v.user]

UnaryAuthInterceptor(r) ==
    /\ hist' = [hist EXCEPT !.auth =
                  Handled("unary", r, validateTokenFromRequest(r, env.tokens))]
    /\ UNCHANGED <<pods, queue, watchUp, wpc, wevt, rj, runs, logListener, fwd,
                   logs, jobs, bus, env>>

StreamAuthInterceptor(r) ==
    /\ hist' = [hist EXCEPT !.auth =
                  Handled("stream", r,
                          IF r.method # LoginMethod
                          THEN validateTokenFromRequest(r, env.tokens)
                          ELSE [code |-> "none", user |-> "none"])]
    /\ UNCHANGED <<pods, queue, watchUp, wpc, wevt, rj, runs, logListener, fwd,
                   logs, jobs, bus, env>>

\* someone else creates a workload in the namespace: it carries the
\* job-name label of a job, but neither the marker label nor metadata
ForeignPod(label) ==
    [NewPod(label, FALSE, {}) EXCEPT !.marker = FALSE, !.created = FALSE]
ForeignCreate(n) ==
    /\ n \in ForeignNames /\ ~pods[n].exists
    /\ \E l \in JobNames : pods' = [pods EXCEPT ![n] = ForeignPod(l)]
    /\ UNCHANGED <<queue, watchUp, wpc, wevt, rj, runs, logListener, fwd,
                   logs, jobs, bus, hist, env>>

(* ---------------------------- result lines ---------------------------- *)
\* Text is a sequence of pieces: a piece is a word (a maximal run of
\* non-whitespace characters) or Blank, a maximal run of whitespace.
MaxPieces == 4
Blank == " "
DocFull ==
    "{\"payload\":\"img\",\"channels\":[\"github\"],\"description\":\"built\"}"
DocPayload == "{\"payload\":\"img\"}"
DocNull == "null"
JsonTexts == {DocFull, DocPayload, DocNull}
Words == {"image", "myrepo/x:v1"} \cup JsonTexts
Texts ==
    {t \in UNION {[1..k -> Words \cup {Blank}] : k \in 1..MaxPieces} :
        \A i \in 1..(Len(t) - 1) : (t[i] = Blank) # (t[i + 1] = Blank)}
LineNames == {<<"build">>, <<Blank, "build", Blank>>, <<"docker">>}
Markers == {"RESULT", "PHASE", "NONE"}
Lines == [name : LineNames, marker : Markers, text : Texts]

\* strings.Fields: the words of a text
Fields(t) == SelectSeq(t, LAMBDA w : w # Blank)

\* strings.Join
RECURSIVE Join(_, _)
Join(segs, sep) ==
    IF Len(segs) = 0 THEN ""
    ELSE IF Len(segs) = 1 THEN segs[1]
    ELSE segs[1] \o sep \o Join(Tail(segs), sep)

\* strings.TrimSpace: the text without leading and trailing whitespace
RECURSIVE TrimSpace(_)
TrimSpace(t) ==
    IF Len(t) = 0 THEN ""
    ELSE IF t[1] = Blank THEN TrimSpace(Tail(t))
    ELSE IF t[Len(t)] = Blank THEN TrimSpace(SubSeq(t, 1, Len(t) - 1))
    ELSE Join(t, "")

\* json.Unmarshal into the result body {payload, channels, description}:
\* a text that is one JSON document, surrounded by whitespace or not,
\* decodes, the JSON null leaving the body as it is; any other text is an
\* error
Unmarshal(t) ==
    LET ws == Fields(t)
    IN  IF Len(ws) = 1 /\ ws[1] = DocFull
        THEN [ok |-> TRUE, P |-> "img", C |-> <<"github">>, D |-> "built"]
        ELSE IF Len(ws) = 1 /\ ws[1] = DocPayload
        THEN [ok |-> TRUE, P |-> "img", C |-> <<>>, D |-> ""]
        ELSE IF Len(ws) = 1 /\ ws[1] = DocNull
        THEN [ok |-> TRUE, P |-> "", C |-> <<>>, D |-> ""]
        ELSE [ok |-> FALSE, P |-> "", C |-> <<>>, D |-> ""]

\* LogCutter.Slice for one line: "[<name>|RESULT] <payload>" is a RESULT
\* event, "[<name>|PHASE] <payload>" a PHASE event, any other line CONTENT
Slice(line) ==
    IF line.marker \in {"RESULT", "PHASE"}
    THEN [type |-> line.marker, name |-> line.name, payload |-> line.text]
    ELSE [type |-> "CONTENT", name |-> <<>>, payload |-> line.text]

\* a parser that keeps the whole payload text
parseResultWhole(evt) ==
    [outcome |-> "registered",
     res |-> [type |-> TrimSpace(evt.name), payload |-> Join(evt.payload, ""),
              description |-> "", channels |-> <<>>]]

\* listenToLogs, the result of a RESULT event: the JSON body when the
\* payload decodes, else the first word as payload and the remaining words,
\* joined by one space, as description; segs[0] of a payload without words
\* is out of range
parseResult(evt) ==
    LET body == Unmarshal(evt.payload)
        segs == Fields(evt.payload)
    IN  IF body.ok
        THEN [outcome |-> "registered",
              res |-> [type |-> TrimSpace(evt.name), payload |-> body.P,
                       description |-> body.D, channels |-> body.C]]
        ELSE IF Len(segs) = 0
        THEN [outcome |-> "panic", res |-> NoRes]
        ELSE [outcome |-> "registered",
              res |-> [type |-> TrimSpace(evt.name), payload |-> segs[1],
                       description |-> Join(Tail(segs), " "),
                       channels |-> <<>>]]

\* listenToLogs, one slice event of the workload's log: events other than
\* RESULT are skipped, the result of a RESULT event is registered; a panic
\* of the goroutine ends the process, no later event is handled
listenToLogsEvent(line) ==
    /\ hist.result.outcome # "panic"
    /\ LET evt == Slice(line)
           r == IF evt.type # "RESULT"
                THEN [outcome |-> "skipped", res |-> NoRes]
                ELSE parseResult(evt)
       IN  hist' = [hist EXCEPT !.result = [line |-> line,
                                             outcome |-> r.outcome,
                                             res |-> r.res]]
    /\ UNCHANGED <<pods, queue, watchUp, wpc, wevt, rj, runs, logListener, fwd,
                   logs, jobs, bus, env>>

(* ------------------------------- restart ------------------------------- *)
\* the Service process restarts: memory is lost, the stores and the
\* orchestrator's workloads are kept, the watcher subscribes anew
Restart ==
    /\ env.restarts < MaxRestarts
    /\ env' = [env EXCEPT !.restarts = @ + 1]
    /\ logListener' = [j \in PodNames |-> NoEntry]
    /\ fwd' = [i \in 1..MaxFwd |-> NoFwd]
    /\ logs' = [j \in PodNames |->
                  IF logs[j].state = "open" THEN [logs[j] EXCEPT !.state = "none"]
                  ELSE logs[j]]
    /\ rj' = [rj EXCEPT !.pc = "idle"]
    /\ wpc' = "idle"
    /\ wevt' = NoEvt
    /\ watchUp' = FALSE
    /\ queue' = <<>>
    /\ bus' = [bus EXCEPT !.sub = "none", !.inbox = <<>>]
    /\ UNCHANGED <<pods, runs, jobs, hist>>

(* ----------------------------- plugin host ----------------------------- *)
UpTo(n, max) == IF n < max THEN n + 1 ELSE max
PluginVars == <<pods, queue, watchUp, wpc, wevt, rj, runs, logListener, fwd,
                logs, jobs, bus, hist>>

\* tryAndRegisterRepoProvider: grpc.Dial; on an error the loop starts over
Dial(p) ==
    LET t == env.plugins.task[p]
        n == IF env.plugins.stopped THEN UpTo(t.late, MaxAttempts) ELSE t.late
    IN  /\ t.pc = "dial"
        /\ \E ok \in BOOLEAN :
             env' = [env EXCEPT !.plugins.task[p] =
                        [t EXCEPT !.pc = IF ok THEN "rpc" ELSE "dial",
                                  !.late = n]]
        /\ UNCHANGED PluginVars

\* tryAndRegisterRepoProvider: the RepoHost call with its 5 s timeout; it
\* can succeed while the plugin serves; on an error the loop starts over,
\* else the repo-registration callback is called
RepoHost(p) ==
    LET t == env.plugins.task[p]
    IN  /\ t.pc = "rpc"
        /\ \E ok \in (IF t.proc = "up" THEN BOOLEAN ELSE {FALSE}) :
             env' = [env EXCEPT !.plugins.task[p] =
                        IF ok
                        THEN [t EXCEPT !.pc = "wait",
                                       !.regs = UpTo(@, MaxRegistrations)]
                        ELSE [t EXCEPT !.pc = "dial"]]
        /\ UNCHANGED PluginVars

\* tryAndRegisterRepoProvider: <-p.stopchan after the registration
AwaitStop(p) ==
    /\ env.plugins.task[p].pc = "wait" /\ env.plugins.stopped
    /\ env' = [env EXCEPT !.plugins.task[p].pc = "select"]
    /\ UNCHANGED PluginVars

\* tryAndRegisterRepoProvider: the select takes the ticker case, continue
SelectTick(p) ==
    /\ env.plugins.task[p].pc = "select" /\ env.plugins.task[p].tick
    /\ env' = [env EXCEPT !.plugins.task[p].pc = "dial",
                          !.plugins.task[p].tick = FALSE]
    /\ UNCHANGED PluginVars

\* tryAndRegisterRepoProvider: the select takes the stopchan case, return
SelectStop(p) ==
    /\ env.plugins.task[p].pc = "select" /\ env.plugins.stopped
    /\ env' = [env EXCEPT !.plugins.task[p].pc = "done"]
    /\ UNCHANGED PluginVars

\* the task's 2 s ticker fires into its channel of capacity one, until the
\* deferred t.Stop
Tick(p) ==
    /\ env.plugins.task[p].pc # "done" /\ ~env.plugins.task[p].tick
    /\ env' = [env EXCEPT !.plugins.task[p].tick = TRUE]
    /\ UNCHANGED PluginVars

\* the plugin's process begins to serve on its socket
PluginServes(p) ==
    /\ env.plugins.task[p].proc = "starting"
    /\ env' = [env EXCEPT !.plugins.task[p].proc = "up"]
    /\ UNCHANGED PluginVars

\* startPlugin's goroutine that waits for stopchan: cmd.Process.Kill()
PluginKill(p) ==
    /\ env.plugins.stopped /\ env.plugins.task[p].proc # "killed"
    /\ env' = [env EXCEPT !.plugins.task[p].proc = "killed"]
    /\ UNCHANGED PluginVars

\* Plugins.Stop: close(p.stopchan)
PluginsStop ==
    /\ ~env.plugins.stopped
    /\ env' = [env EXCEPT !.plugins.stopped = TRUE]
    /\ UNCHANGED PluginVars

\* the steps of the registration task of plugin p
tryAndRegisterRepoProvider(p) ==
    \/ Dial(p)
    \/ RepoHost(p)
    \/ AwaitStop(p)
    \/ SelectTick(p)
    \/ SelectStop(p)

(* ---------------------------- specifications --------------------------- *)
\* RunJob, the watcher and the orchestrator's part in a workload's life
Core(annotated) ==
    \/ \E n \in JobNames, c \in annotated : RunJobCall(n, c)
    \/ RunJobOpen
    \/ RunJobRender
    \/ RunJobStart
    \/ RunJobServe
    \/ RunJobStore
    \/ RunJobEmit
    \/ handleJobEvent
    \/ OnUpdateEmit
    \/ actOnUpdate
    \/ OnError
    \/ \E n \in PodNames : PodProgress(n)
    \/ \E n \in PodNames : PodGone(n)

\* the Service with its log forwarders and a bus subscriber; RunJob is
\* called with and without the cleanupJob annotation in the job's metadata
Next ==
    \/ Core(BOOLEAN)
    \/ \E i \in 1..MaxFwd : listenToLogsResult(i)
    \/ \E i \in 1..MaxFwd : listenToLogsCancelled(i)
    \/ \E n \in PodNames : PodLog(n)
    \/ Subscribe
    \/ SubscriberRead

Spec == Init /\ [][Next]_vars

\* a watch subscription that drops, workloads deleted by others, and the
\* housekeeping loop
NextWatch ==
    \/ Core({FALSE})
    \/ WatchDrop
    \/ monitorJobs
    \/ \E n \in JobNames : ExternalDelete(n)
    \/ doHousekeeping

SpecWatch == Init /\ [][NextWatch]_vars

\* a Service that restarts
NextRestart ==
    \/ Core({FALSE})
    \/ Restart
    \/ monitorJobs

SpecRestart == Init /\ [][NextRestart]_vars

\* StopJob and the housekeeping loop
NextStop ==
    \/ Core({FALSE})
    \/ \E n \in JobNames : StopJob(n)
    \/ doHousekeeping

SpecStop == Init /\ [][NextStop]_vars

\* the watcher losing its subscription and subscribing again
NextReconnect ==
    \/ Core({FALSE})
    \/ WatchDrop
    \/ monitorJobs

SpecReconnect == Init /\ [][NextReconnect]_vars

\* the housekeeping loop with failing calls
NextHousekeeping ==
    \/ Core({FALSE})
    \/ doHousekeeping
    \/ doHousekeepingFaulty

SpecHousekeeping == Init /\ [][NextHousekeeping]_vars

\* the Executor by itself: Start, Stop, the watcher and housekeeping
ExecutorNext(keysets) ==
    \/ \E n \in JobNames, keys \in keysets : ExecutorStart(n, keys)
    \/ \E n \in JobNames : StopJob(n)
    \/ handleJobEvent
    \/ OnUpdateEmit
    \/ actOnUpdate
    \/ OnError
    \/ doHousekeeping
    \/ \E n \in PodNames : PodProgress(n)
    \/ \E n \in PodNames : PodGone(n)

\* the Executor, called without user annotations as RunJob does, next to
\* workloads it did not create
NextLabels ==
    \/ ExecutorNext({{}})
    \/ \E n \in ForeignNames : ForeignCreate(n)

SpecLabels == Init /\ [][NextLabels]_vars

\* RunJob called with pod specs that carry environment variables
NextRedact ==
    \/ \E n \in JobNames, spec \in PodSpecs : RunJobCallWith(n, FALSE, spec)
    \/ RunJobOpen
    \/ RunJobRender
    \/ RunJobStart
    \/ RunJobServe
    \/ RunJobStore
    \/ RunJobEmit

SpecRedact == Init /\ [][NextRedact]_vars

\* the RPC server's interceptors, of a Service with or without a token
\* store
NextAuth ==
    \/ \E r \in UnaryRequests : UnaryAuthInterceptor(r)
    \/ \E r \in StreamRequests : StreamAuthInterceptor(r)

SpecAuth == InitAuth /\ [][NextAuth]_vars

\* the Service with log forwarders that may fail
NextForwarder ==
    \/ Core({FALSE})
    \/ \E i \in 1..MaxFwd : listenToLogsResult(i)
    \/ \E i \in 1..MaxFwd : listenToLogsCancelled(i)
    \/ \E i \in 1..MaxFwd : listenToLogsFails(i)
    \/ \E i \in 1..MaxFwd : listenToLogsReset(i)
    \/ \E n \in PodNames : PodLog(n)

SpecForwarder == Init /\ [][NextForwarder]_vars

\* a forwarder's select takes the ctx.Done case in the end when the context
\* is cancelled: the choice among the ready cases is random
SpecForwarderFair ==
    /\ SpecForwarder
    /\ \A i \in 1..MaxFwd : WF_vars(listenToLogsCancelled(i))

\* the Service with the OnUpdate callback's store, report and publish as
\* steps of their own; RunJob is called with and without the cleanupJob
\* annotation
NextOnUpdate ==
    \/ \E n \in JobNames, c \in BOOLEAN : RunJobCall(n, c)
    \/ RunJobOpen
    \/ RunJobRender
    \/ RunJobStart
    \/ RunJobServe
    \/ RunJobStore
    \/ RunJobEmit
    \/ handleJobEventIn(TRUE)
    \/ OnUpdateStore
    \/ OnUpdateReport
    \/ OnUpdateEmit
    \/ actOnUpdate
    \/ OnError
    \/ \E n \in PodNames : PodProgress(n)
    \/ \E n \in PodNames : PodGone(n)
    \/ \E n \in JobNames : StopJob(n)

SpecOnUpdate == Init /\ [][NextOnUpdate]_vars

\* RunJob, the OnUpdate callback and the forwarders around srv.mu, the
\* locked sections taken step by step
NextLocks ==
    \/ \E n \in JobNames : RunJobLock(n)
    \/ RunJobInstall
    \/ RunJobUnlock
    \/ \E phase \in PHASE_PREPARING..PHASE_CLEANUP : OnUpdateCall(phase)
    \/ ensureLoggingRLock
    \/ ensureLoggingCheck
    \/ ensureLoggingLock
    \/ ensureLoggingAttach
    \/ ensureLoggingUnlock
    \/ OnUpdateCleanupLock
    \/ OnUpdateCleanup
    \/ OnUpdateCleanupUnlock
    \/ \E i \in 1..MaxFwd : listenToLogsCancelled(i)
    \/ \E i \in 1..MaxFwd : listenToLogsFails(i)
    \/ \E i \in 1..MaxFwd : listenToLogsReset(i)

SpecLocks == Init /\ [][NextLocks]_vars

\* the Service when RunJob is called a second time with a job's name
NextRerun ==
    \/ \E n \in JobNames : RunJobCall(n, FALSE)
    \/ \E n \in JobNames : RunJobAgain(n, FALSE)
    \/ RunJobOpen
    \/ RunJobRender
    \/ RunJobStart
    \/ RunJobServe
    \/ RunJobStore
    \/ RunJobEmit
    \/ handleJobEvent
    \/ OnUpdateEmit
    \/ actOnUpdate
    \/ \E n \in PodNames : PodProgress(n)
    \/ \E n \in PodNames : PodGone(n)
    \/ \E i \in 1..MaxFwd : listenToLogsCancelled(i)

SpecRerun == Init /\ [][NextRerun]_vars

\* the plugin host with its repository plugins
NextPlugins ==
    \/ \E p \in RepoPlugins : Dial(p)
    \/ \E p \in RepoPlugins : RepoHost(p)
    \/ \E p \in RepoPlugins : AwaitStop(p)
    \/ \E p \in RepoPlugins : SelectTick(p)
    \/ \E p \in RepoPlugins : SelectStop(p)
    \/ \E p \in RepoPlugins : Tick(p)
    \/ \E p \in RepoPlugins : PluginServes(p)
    \/ \E p \in RepoPlugins : PluginKill(p)
    \/ PluginsStop

SpecPlugins == Init /\ [][NextPlugins]_vars

\* every goroutine is scheduled: a registration task that can take a step
\* takes one, and the goroutine that waits for stopchan kills the process
SpecPluginsFair ==
    /\ SpecPlugins
    /\ \A p \in RepoPlugins : WF_vars(tryAndRegisterRepoProvider(p))
    /\ \A p \in RepoPlugins : WF_vars(PluginKill(p))

\* the log forwarder's handling of the lines of a workload's log
NextResult == \E line \in Lines : listenToLogsEvent(line)

SpecResult == Init /\ [][NextResult]_vars

\* the Executor, asked to start a job under a name more than once
NextStart ==
    \/ \E n \in JobNames : ExecutorStartWithin(n, {}, MaxStarts)
    \/ \E n \in JobNames : StopJob(n)
    \/ handleJobEvent
    \/ OnUpdateEmit
    \/ actOnUpdate
    \/ OnError
    \/ \E n \in PodNames : PodProgress(n)
    \/ \E n \in PodNames : PodGone(n)

SpecStart == Init /\ [][NextStart]_vars

\* the Executor, called with user annotations
NextAnnotations == ExecutorNext(SUBSET UserKeys)

SpecAnnotations == Init /\ [][NextAnnotations]_vars

(* ------------------------------ properties ---------------------------- *)
IsPrefix(a, b) == Len(a) <= Len(b) /\ SubSeq(b, 1, Len(a)) = a
NoEventFor(j) == \A k \in 1..Len(queue) : queue[k].name # j
\* the workload of j is gone and the watcher has nothing left to handle
Settled(j) == ~pods[j].exists /\ NoEventFor(j) /\ wpc = "idle"
\* RunJob for j has returned and j's workload is settled
JobOver(j) == rj.pc = "idle" /\ rj.name = j /\ rj.ret # "none" /\ Settled(j)
\* the synthetic failure status: DONE, success=false, failureCount=1
IsFailure(s) == s.phase = PHASE_DONE /\ ~s.success /\ s.fc = 1
\* a step in which the watcher takes an event and invokes OnUpdate
TakesEvent == wpc = "idle" /\ wpc' # "idle"
\* a step in which OnUpdate, or RunJob's failure path, publishes
WatcherPublishes == wpc = "emit" /\ wpc' # "emit"
RunJobPublishes == rj.pc = "emit" /\ rj'.pc # "emit"

\* C1: when RunJob has returned without error, Executor.Start has created
\* the job's workload during the call; when it has returned an error, its
\* failure path has stored exactly one status and published exactly one
\* status, both DONE with success=false and failureCount=1, and has written
\* the failure marker if the log was opened.
C1_RunJobOutcome ==
    /\ [](/\ rj.ret = "ok" => rj.submitted
          /\ rj.ret = "err" => /\ rj.fStores = 1 /\ rj.fEmits = 1
                               /\ rj.logsOpen => rj.marker)
    /\ [][/\ (rj'.submitted /\ ~rj.submitted)
               => (pods'[rj.name].exists /\ ~pods[rj.name].exists)
          /\ rj'.fStores > rj.fStores => IsFailure(jobs'[rj.name])
          /\ rj'.fEmits > rj.fEmits => IsFailure(bus'.last)]_vars

\* RunJob returned the error of a failed contentProvider.Serve, after the
\* workload was submitted, and wrote the failure marker
C1_Witness ==
    rj.ret = "err" /\ rj.why = "serve" /\ rj.submitted /\ rj.marker
      /\ IsFailure(bus.last)

\* C2 (as claimed): once RunJob has returned and the job's workload is gone
\* with nothing left to handle, the last phase stored for the job is DONE.
C2_FinalPhaseDone ==
    \A j \in JobNames :
      (JobOver(j) /\ ~rj.cleanup) => jobs[j].phase = PHASE_DONE

\* C3 (as claimed): a job whose workload changed or was deleted while no
\* watch was subscribed is not stranded: once the watch is re-established
\* and nothing is left to handle, OnUpdate has been invoked with DONE for it.
C3_NotStranded ==
    \A j \in JobNames :
      (hist.missed[j] /\ watchUp /\ Settled(j) /\ rj.pc = "idle"
         /\ rj.ret = "ok")
        => hist.done[j]

\* C4 (as claimed): the phase stored in the JobStore for a job never
\* regresses, whoever stores (RunJob, its failure path, OnUpdate).
C4_StoredPhaseMonotone ==
    [][\A j \in JobNames : jobs'[j].phase >= jobs[j].phase]_vars

\* C5 (as claimed): a status published on the bus has a phase greater than
\* or equal to that of the status published before it for the job.
C5_PublishedPhaseMonotone ==
    [][(WatcherPublishes \/ RunJobPublishes)
         => bus'.last.phase >= bus.last.phase]_vars

C8_ExactlyOneCleanup ==
    \A j \in JobNames :
      (hist.done[j] /\ Settled(j) /\ watchUp) => hist.cleanups[j] = 1

\* C9 (as claimed): when the job is over with DONE as its stored status,
\* that status holds every RESULT the workload wrote to its log.
C9_ResultsInFinalStatus ==
    \A j \in JobNames :
      (JobOver(j) /\ rj.ret = "ok" /\ ~rj.cleanup
         /\ jobs[j].phase = PHASE_DONE)
        => \A r \in 1..hist.emitted[j] : r \in jobs[j].results

(* --------------------------- Stop, housekeeping ------------------------ *)
\* a Stop call returns in this step, without error
StopSucceeds == hist'.stop.calls > hist.stop.calls /\ hist'.stop.err = "none"
\* a Stop call returns in this step, with an error
StopFails == hist'.stop.calls > hist.stop.calls /\ hist'.stop.err # "none"
Active == {PHASE_PREPARING, PHASE_STARTING, PHASE_RUNNING}
\* the last Stop call succeeded on workload n, which was in an active phase
StoppedActive(n) ==
    /\ hist.stop.calls > 0 /\ hist.stop.err = "none"
    /\ hist.stop.target = n /\ hist.stop.phase \in Active
    /\ pods[n].exists /\ pods[n].failed = StopMsg

C12_StopErrors ==
    /\ [][hist'.stop.calls > hist.stop.calls =>
            LET carrying == {n \in PodNames : /\ pods[n].exists
                                               /\ pods[n].label = hist'.stop.name}
            IN  /\ ~hist'.stop.listOk => hist'.stop.err = "list failed"
                /\ hist'.stop.listOk /\ carrying = {}
                     => hist'.stop.err = "unknown job"
                /\ hist'.stop.listOk /\ Cardinality(carrying) > 1
                     => hist'.stop.err = "no unique execution"
                /\ hist'.stop.listOk /\ Cardinality(carrying) = 1
                     => hist'.stop.err = "none"]_vars
    /\ [][StopFails => pods' = pods]_vars

\* Stop found two workloads carrying the label and failed
C12_Witness ==
    /\ hist.stop.calls > 0 /\ hist.stop.listOk /\ hist.stop.listed = 2
    /\ hist.stop.err = "no unique execution"
    /\ \A n \in PodNames : pods[n].exists => pods[n].failed = "none"

\* C13: after Stop succeeded on a running job, the failed annotation keeps
\* the value "job was stopped manually" for as long as the workload exists:
\* no later housekeeping pass replaces it by a timeout message.
C13_StopReasonKept ==
    [][\A n \in PodNames :
         StoppedActive(n) /\ hist.stop.phase = PHASE_RUNNING /\ pods'[n].exists
           => pods'[n].failed = StopMsg]_vars

\* C14: housekeeping writes its timeout annotation only on workloads whose
\* phase is PREPARING, STARTING or RUNNING; a workload in another phase is
\* left unannotated whatever its age.
C14_OnlyActiveTimedOut ==
    [][\A n \in PodNames :
         pods'[n].failed # pods[n].failed /\ pods'[n].failed \in TimeoutMsgs
           => getStatus(pods[n]).phase \in Active]_vars

\* C15: every error that occurs in a housekeeping pass (listing, status
\* computation, parsing the created timestamp, writing the annotation) is
\* passed to OnError.
C15_HousekeepingErrorsReported ==
    hist.hk.occurred \subseteq hist.hk.reported

(* ------------------------------- watcher ------------------------------- *)
\* the watcher takes a step
WatcherStep == wpc' # wpc \/ watchUp' # watchUp
\* the delete of workload n is issued in this step
DeleteIssued(n) ==
    /\ pods[n].exists /\ ~pods[n].deleting
    /\ pods'[n].exists /\ pods'[n].deleting

\* C16: a workload is deleted only by the watcher, in reaction to an event
\* for that workload whose computed status is DONE and after OnUpdate was
\* invoked with that status; an event whose status is PREPARING, STARTING
\* or RUNNING leaves every workload as it is.
C16_DeleteOnlyAfterDone ==
    /\ [][\A n \in PodNames :
            DeleteIssued(n) =>
              /\ wpc = "act" /\ wevt.name = n
              /\ getStatus(wevt.obj).phase = PHASE_DONE
              /\ hist.done[n]]_vars
    /\ [][wpc = "act" /\ WatcherStep /\ getStatus(wevt.obj).phase \in Active
            => pods' = pods]_vars

\* the watcher has deleted a workload
C16_Witness ==
    \E n \in JobNames :
      /\ pods[n].exists /\ pods[n].deleting /\ hist.done[n]
      /\ wpc = "idle"

\* C17: when the delete of a DONE workload fails, as it does for a workload
\* that is already gone, the watcher passes the error to OnError, changes
\* nothing else, and is ready for the next event afterwards.
C17_DeleteFailureReported ==
    /\ [][(wpc = "act" /\ WatcherStep
            /\ getStatus(wevt.obj).phase = PHASE_DONE
            /\ ~pods[wevt.name].exists)
            => wpc' = "onerror" /\ pods' = pods /\ queue' = queue]_vars
    /\ [][wpc = "onerror" /\ WatcherStep
            => wpc' = "idle" /\ queue' = queue /\ watchUp' = watchUp]_vars
    /\ [](wpc = "onerror" => ENABLED OnError)

\* the watcher reports the failed delete of a workload that is gone
C17_Witness ==
    /\ wpc = "onerror" /\ watchUp
    /\ getStatus(wevt.obj).phase = PHASE_DONE
    /\ ~pods[wevt.name].exists

C19_SubmittedWorkloadsLabelled ==
    /\ [](\A n \in CoreNames :
            pods[n].exists =>
              pods[n].marker /\ pods[n].label = n /\ pods[n].created)
    /\ [](\A i \in 1..Len(queue) : queue[i].obj.marker)
    /\ [](wpc \in {"emit", "act"} => wevt.obj.marker)
    /\ [][\A n \in PodNames :
            pods'[n].failed # pods[n].failed /\ pods'[n].failed \in TimeoutMsgs
              => pods[n].marker]_vars

\* a workload without the marker label has run next to a job of the core
\* that housekeeping timed out
C19_Witness ==
    \E x \in ForeignNames, n \in CoreNames :
      /\ pods[x].exists /\ ~pods[x].marker /\ pods[x].cstate = "running"
      /\ pods[x].failed = "none"
      /\ pods[n].exists /\ pods[n].failed \in TimeoutMsgs
      /\ watchUp

\* C20: the metadata annotation of a workload is the same for as long as
\* the workload exists, whatever Stop, housekeeping and addAnnotation write;
\* the annotations made from the caller's annotations all have a key
\* userdata.werft.sh/<key>, which is neither the metadata nor the failed key.
C20_MetadataImmutable ==
    /\ [][\A n \in PodNames :
            pods[n].exists /\ pods'[n].exists =>
              /\ pods'[n].cleanup = pods[n].cleanup
              /\ pods'[n].created = pods[n].created
              /\ pods'[n].userdata = pods[n].userdata]_vars
    /\ [](\A n \in PodNames :
            pods[n].exists =>
              \A k \in pods[n].userdata :
                /\ k \in {UserDataAnnotationPrefix \o "/" \o u : u \in UserKeys}
                /\ k \notin {AnnotationMetadata, AnnotationFailed})

\* a workload started with a user annotation named like the metadata key
\* has been annotated as failed
C20_Witness ==
    \E n \in JobNames :
      /\ pods[n].exists /\ pods[n].created
      /\ "userdata.werft.sh/werft.sh/metadata" \in pods[n].userdata
      /\ pods[n].failed # "none"

(* --------------------------------- Start -------------------------------- *)
\* a direct Start call returns in this step
StartReturns == runs' > runs /\ hist'.start # NoStart /\ rj' = rj

\* C21: at most one workload exists per job name, and a Start under a name
\* for which a workload exists changes no workload and returns the
\* orchestrator's error.
C21_OneWorkloadPerName ==
    /\ [](\A name \in CoreNames : Cardinality(Labelled(pods, name)) <= 1)
    /\ [][(StartReturns /\ pods[hist'.start.name].exists)
            => /\ pods' = pods
               /\ hist'.start.existed
               /\ hist'.start.err = "create failed"]_vars
    /\ [][(StartReturns /\ hist'.start.err = "none")
            => /\ ~pods[hist'.start.name].exists
               /\ pods'[hist'.start.name].exists]_vars

\* Start was refused for a name whose workload is running
C21_Witness ==
    /\ hist.start.existed /\ hist.start.err = "create failed"
    /\ pods[hist.start.name].exists
    /\ pods[hist.start.name].cstate = "running"
    /\ runs = 2

(* ------------------------------ RunJob dump ----------------------------- *)
\* the environment variables of a spec, of init and regular containers
ContainersOf(spec) ==
    {spec.init[k] : k \in DOMAIN spec.init}
      \cup {spec.containers[k] : k \in DOMAIN spec.containers}
EnvOf(spec) == UNION {{c[i] : i \in DOMAIN c} : c \in ContainersOf(spec)}

\* C22: in the spec RunJob dumps into the log every environment variable
\* whose name contains "secret" has the value "[redacted]", in init
\* containers and regular containers alike, and the spec passed to
\* Executor.Start is the original one.
C22_SecretsRedacted ==
    /\ \A e \in EnvOf(rj.dump) : isSecretName(e.name) => e.value = Redacted
    /\ rj.submitted => rj.sent = rj.podspec

(* ---------------------------- authentication --------------------------- *)
\* the last request was a Login stream
IsLogin == hist.auth.kind = "stream" /\ hist.auth.method = LoginMethod
\* the last request carried a token that TokenStore.Get resolves to a user
Resolves ==
    /\ hist.auth.hasMd /\ Len(hist.auth.tkn) > 0 /\ hist.auth.get = "ok"
    /\ hist.auth.tkn[1] \in DOMAIN env.tokens.users

C24_MissingOrUnknownUnauthenticated ==
    (/\ hist.auth.kind # "none" /\ ~IsLogin /\ env.tokens.configured
     /\ \/ ~hist.auth.hasMd
        \/ Len(hist.auth.tkn) = 0
        \/ hist.auth.get = "ok" /\ ~Resolves)
      => ~hist.auth.invoked /\ hist.auth.code = "Unauthenticated"

\* the line of the happy-path scenario: [build|RESULT] image myrepo/x:v1
S1Line == [name |-> <<"build">>, marker |-> "RESULT",
           text |-> <<"image", Blank, "myrepo/x:v1">>]

\* C25 (as stated): for the log line "[build|RESULT] image myrepo/x:v1" the
\* registered result has type "build" and payload "image myrepo/x:v1"
C25_ResultKeepsPayload ==
    hist.result.line = S1Line =>
      /\ hist.result.outcome = "registered"
      /\ hist.result.res.type = "build"
      /\ hist.result.res.payload = "image myrepo/x:v1"

\* C25 (amended): for the log line "[build|RESULT] image myrepo/x:v1" the
\* registered result has type "build", payload "image" and description
\* "myrepo/x:v1"; in general a payload that is not a JSON document and has
\* a word is split into its first word and the rest
C25_ResultSplitsPayload ==
    /\ hist.result.line = S1Line =>
         /\ hist.result.outcome = "registered"
         /\ hist.result.res = [type |-> "build", payload |-> "image",
                               description |-> "myrepo/x:v1",
                               channels |-> <<>>]
    /\ (/\ hist.result.line.marker = "RESULT"
        /\ Fields(hist.result.line.text) # <<>>
        /\ ~Unmarshal(hist.result.line.text).ok)
         => /\ hist.result.outcome = "registered"
            /\ hist.result.res.payload = Fields(hist.result.line.text)[1]
            /\ hist.result.res.type \in {"build", "docker"}

C25_Witness ==
    /\ hist.result.line = S1Line
    /\ hist.result.outcome = "registered"
    /\ hist.result.res.description = "myrepo/x:v1"

\* the forwarder tasks of a job that have not returned
ActiveFwd(j) == {i \in 1..MaxFwd : fwd[i].state = "run" /\ fwd[i].job = j}

Update == getStatus(wevt.obj)
Propagates(s) == ~isCleanupJob(s) /\ s.phase # PHASE_CLEANUP
WatcherMoves == wpc' # wpc

\* C28: a status with phase CLEANUP is never stored, reported or
\* published; every other update of a job that is no cleanup job is stored,
\* then reported, then published, once each per OnUpdate call and in that
\* order
C28_StoreReportPublish ==
    /\ [](/\ \A j \in PodNames : jobs[j].phase # PHASE_CLEANUP
          /\ hist.reported.phase # PHASE_CLEANUP
          /\ bus.last.phase # PHASE_CLEANUP)
    /\ [][/\ (TakesEvent /\ Propagates(getStatus(Head(queue).obj)))
               => (wpc' = "store" /\ jobs' = jobs /\ bus' = bus
                   /\ hist'.reported = hist.reported)
          /\ (TakesEvent /\ ~Propagates(getStatus(Head(queue).obj)))
               => (wpc' = "act" /\ jobs' = jobs /\ bus' = bus
                   /\ hist'.reported = hist.reported)
          /\ (wpc = "store" /\ WatcherMoves)
               => (wpc' = "report" /\ jobs'[wevt.name] = Update
                   /\ bus' = bus /\ hist'.reported = hist.reported)
          /\ (wpc = "report" /\ WatcherMoves)
               => (wpc' = "emit" /\ hist'.reported = Update
                   /\ jobs' = jobs /\ bus' = bus)
          /\ (wpc = "emit" /\ WatcherMoves)
               => (wpc' = "act" /\ bus'.last = Update
                   /\ jobs' = jobs /\ hist'.reported = hist.reported)
          /\ (wpc \in {"act", "onerror"} /\ WatcherMoves)
               => (wpc' \in {"idle", "onerror"} /\ jobs' = jobs
                   /\ bus' = bus /\ hist'.reported = hist.reported)]_vars

\* the watcher has handled the CLEANUP update of a job whose DONE status
\* is the last one stored, reported and published
C28_Witness ==
    /\ wpc = "act" /\ wevt.name = "j1" /\ Update.phase = PHASE_CLEANUP
    /\ ~isCleanupJob(Update)
    /\ jobs["j1"].phase = PHASE_DONE /\ hist.reported.phase = PHASE_DONE
    /\ bus.last.phase = PHASE_DONE

\* C29 (as stated): once a job's log has been closed in reaction to a
\* CLEANUP update, nothing is written to it any more, neither by the
\* OnUpdate callback's dump nor by the log forwarder
C29_NoWriteAfterClose ==
    \A j \in PodNames : logs[j].state = "closed" => ~logs[j].late

\* a forwarder whose context the CLEANUP branch has cancelled
Cancelled(i) == fwd[i].state = "run" /\ fwd[i].cancelled

\* C30 (as stated): after a CLEANUP update has been handled for a job with
\* an attached forwarder, the forwarder terminates in the end and calls
\* neither RegisterResult nor Stop any more; a forwarder terminates only
\* when it was cancelled or a log write failed, not because the workload's
\* log ended
C30_ForwarderEndsQuietly ==
    /\ \A i \in 1..MaxFwd : Cancelled(i) ~> fwd[i].state # "run"
    /\ [][\A i \in 1..MaxFwd :
            /\ Cancelled(i) => /\ fwd'[i].pos = fwd[i].pos
                               /\ i \in hist'.fwd.stopped
                                    => i \in hist.fwd.stopped
            /\ (fwd[i].state = "run" /\ fwd'[i].state # "run")
                 => (fwd[i].cancelled \/ fwd'[i].state = "failed")]_vars

Mutations == {"install", "setCancel", "clearCancel", "delete"}

\* C27 (as stated): every mutation of the logListener map or of a field of
\* one of its entries is made while the writer holds the write lock of
\* srv.mu, and every read while the reader holds the read or the write lock
C27_AccessesLocked ==
    \A a \in hist.mu.access :
      /\ a.op \in Mutations => a.held = "write"
      /\ a.op = "read" => a.held \in {"read", "write"}

\* forwarder i's copy to the log store fails in this step
CopyFails(i) == i \in hist'.fwd.copyFailed /\ i \notin hist.fwd.copyFailed
\* the entry forwarder i is attached to
AttachedTo(i) ==
    logListener[fwd[i].job].present /\ logListener[fwd[i].job].cancel = i

IsObjectForm(t) ==
    Len(Fields(t)) = 1 /\ Fields(t)[1] \in {DocFull, DocPayload}
ObjectFields(t) ==
    IF Fields(t)[1] = DocFull
    THEN [payload |-> "img", description |-> "built",
          channels |-> <<"github">>]
    ELSE [payload |-> "img", description |-> "", channels |-> <<>>]

\* C32 (as stated): for every RESULT slice event the forwarder registers
\* one result whose type is the trimmed event name; payload, description
\* and channels are the fields of a payload in JSON object form, otherwise
\* the first whitespace-separated token, the remaining tokens joined by
\* single spaces, and no channels; CONTENT and PHASE events register nothing
C32_ResultOfEveryEvent ==
    LET line == hist.result.line
        res == hist.result.res
    IN  hist.result.outcome # "none" =>
          IF line.marker = "RESULT"
          THEN /\ hist.result.outcome = "registered"
               /\ res.type = TrimSpace(line.name)
               /\ IF IsObjectForm(line.text)
                  THEN /\ res.payload = ObjectFields(line.text).payload
                       /\ res.description
                            = ObjectFields(line.text).description
                       /\ res.channels = ObjectFields(line.text).channels
                  ELSE /\ res.payload = Fields(line.text)[1]
                       /\ res.description
                            = Join(Tail(Fields(line.text)), " ")
                       /\ res.channels = <<>>
          ELSE hist.result.outcome = "skipped"

\* C33: the log forwarder handles every RESULT slice event without faulting,
\* a payload that is empty or only whitespace included, and stays able to
\* register the later RESULT events of the job.
C33_ForwarderNeverFaults ==
    /\ hist.result.outcome # "panic"
    /\ \E line \in Lines :
          line.marker = "RESULT" /\ ENABLED listenToLogsEvent(line)

\* C34: when the job template fails to parse or execute, the rendered text
\* fails to decode or the decoded spec has no pod spec, RunJob returns an
\* error without a call of Executor.Start or contentProvider.Serve: the step
\* creates no workload, the failure path follows, and the job has no
\* workload
RenderFails == rj.pc = "render" /\ rj'.pc # "render" /\ rj'.pc # "start"
C34_RenderFailureStartsNothing ==
    /\ [](rj.why = "render"
            => /\ ~rj.submitted /\ rj.sent = NoSpec
               /\ ~pods[rj.name].exists
               /\ rj.pc \in {"emit", "idle"}
               /\ rj.pc = "idle" => rj.ret = "err")
    /\ [][RenderFails
            => /\ rj'.why = "render" /\ rj'.pc = "emit"
               /\ pods' = pods /\ queue' = queue]_vars

C34_Witness ==
    /\ rj.why = "render" /\ rj.pc = "idle" /\ rj.ret = "err"
    /\ \A n \in PodNames : ~pods[n].exists

\* a workload of the job that is neither done nor being deleted
LiveWorkload(name) ==
    pods[name].exists /\ getStatus(pods[name]).phase < PHASE_DONE

\* C35 (as stated): when RunJob returned an error, the orchestrator holds no
\* live workload of the job, also when contentProvider.Serve failed after
\* Executor.Start, and the status stored for the job stays the DONE/failed
\* one of the failure path: no PREPARING, STARTING or RUNNING update
\* follows.
C35_FailedRunLeavesNoWorkload ==
    (rj.pc = "idle" /\ rj.ret = "err")
        => /\ ~LiveWorkload(rj.name)
           /\ jobs[rj.name].phase >= PHASE_DONE

\* a step of a RunJob call whose name an earlier call had, while the
\* earlier job's workload is live
RerunStep ==
    /\ rj.name \in hist.named /\ runs > Cardinality(hist.named)
    /\ rj.pc # "idle" /\ rj' # rj
    /\ LiveWorkload(rj.name) /\ ~rj.submitted

\* C36 (as stated): a RunJob call with the name of a job whose workload is
\* live fails without disturbing that job: its logListener entry and the
\* cancel handle of its forwarder are kept, its stored status is not
\* overwritten with a DONE/failed status, and no DONE status is published
\* for it.
C36_RerunLeavesJobAlone ==
    [][RerunStep
        => /\ logListener'[rj.name] = logListener[rj.name]
           /\ fwd' = fwd
           /\ (jobs'[rj.name] = jobs[rj.name] \/ ~IsFailure(jobs'[rj.name]))
           /\ bus' = bus
           /\ rj.pc = "start" => rj'.why = "start"]_vars

\* C37 (as stated): the per-job state in memory is released for every
\* finished job: once RunJob has returned and the job's workload, if it had
\* one, is gone with all its updates handled (the CLEANUP update and any
\* duplicate DONE update included), the logListener map has no entry for
\* the job and the job's log is not open.
C37_FinishedJobHoldsNothing ==
    \A j \in JobNames :
        JobOver(j) => ~logListener[j].present /\ logs[j].state # "open"

\* C38 (as stated): in the spec RunJob hands to Executor.Start, the checkout
\* init container obtained from contentProvider.InitContainer() is the first
\* init container, ahead of every init container the job declared.
C38_CheckoutRunsFirst ==
    rj.submitted
        => /\ rj.sent.init = <<InitContainer>> \o rj.declared.init
           /\ rj.sent.containers = rj.declared.containers

\* a step in which the task of plugin p begins a handshake
BeginsHandshake(p) ==
    env.plugins.task[p].pc = "dial" /\ env'.plugins.task[p].pc = "rpc"

\* C39 (as stated): for each repository plugin the registration task calls
\* the repo-registration callback at most once; after Plugins.Stop the task
\* terminates in the end, and a task that has registered begins no
\* handshake after Stop.
C39_RegistersOnceAndEnds ==
    /\ [](\A p \in RepoPlugins : env.plugins.task[p].regs <= 1)
    /\ \A p \in RepoPlugins :
          env.plugins.stopped ~> (env.plugins.task[p].pc = "done")
    /\ [][\A p \in RepoPlugins :
            (env.plugins.stopped /\ env.plugins.task[p].regs > 0)
                => ~BeginsHandshake(p)]_vars

====
